---------------------------- MODULE EventLedger ----------------------------
(***************************************************************************)
(* The hash-chained ledger file of src/src/evidence/ledger.py as a value.  *)
(* Every call locks the whole file, so a call is one step; what remains is *)
(* what a crash inside the write of a line leaves behind.  The hash chain  *)
(* and the sequence numbers are the order of the sequence; an event is its *)
(* idempotency key and its content.                                        *)
(***************************************************************************)
EXTENDS Naturals, Sequences

\* tail: the file ends after a newline, after a whole event without its
\* newline, or holds a line that is no event.
EmptyLedger == [events |-> <<>>, tail |-> "line"]

\* _load_locked accepts the file.  A last line without a newline is read.
Loads(ledger) == ledger.tail # "garbage"

Event(key, content) == [key |-> key, content |-> content]

WithKey(ledger, key) ==
    {n \in 1 .. Len(ledger.events) : ledger.events[n].key = key}

\* The key has been used for another event.
Conflicts(ledger, event) ==
    \E n \in WithKey(ledger, event.key) : ledger.events[n] # event

\* A new line is written where the file ends: behind a missing newline it
\* makes one unreadable line of two events.
Written(ledger, event) ==
    IF ledger.tail = "line" THEN [ledger EXCEPT !.events = Append(@, event)]
                            ELSE [ledger EXCEPT !.tail = "garbage"]

\* Mutant: the keys of the file are not looked at.
AppendedAlways(ledger, event) == Written(ledger, event)

\* append: an event with the key is returned, not written again.
Appended(ledger, event) ==
    IF WithKey(ledger, event.key) # {} THEN ledger ELSE Written(ledger, event)

\* The process dies inside the write: nothing, a part of the line, or the
\* whole line but its newline reached the file.
Torn(ledger, event) ==
    IF WithKey(ledger, event.key) # {} THEN {ledger}
    ELSE {ledger, [ledger EXCEPT !.tail = "garbage"]}
         \cup IF ledger.tail = "line"
              THEN {[events |-> Append(ledger.events, event), tail |-> "open"]} ELSE {}

\* The chain a reader accepts holds no key twice.
NoDuplicates(ledger) ==
    \A m, n \in 1 .. Len(ledger.events) :
        ledger.events[m].key = ledger.events[n].key => m = n
=============================================================================
