---------------------------- MODULE EventParser ----------------------------
(* Perf_Cachetest::parseEvents(): the list given with option -e, split at   *)
(* commas by strtok(), becomes the vector of events to count. A token       *)
(* "rx0000yyxx" is an event with its mask; ":name" is one of two named      *)
(* tests; "xx" is an event whose mask may follow as "uyy". To see whether   *)
(* it does the code has to take the next token, and jumps back into the     *)
(* loop with it when it is none. A token stands for all of its kind, "junk" *)
(* for those that cannot be parsed; an event is known by the positions of   *)
(* the tokens its id and mask are from.                                     *)
EXTENDS Integers, Sequences

CONSTANT MaxTokens     \* bound on the length of the list

ASSUME TokensAssumption == MaxTokens \in Nat

VARIABLES
  list,       \* the kinds of the tokens, in order
  next,       \* position of the token strtok() returns next
  num_events, \* events counted against the limit
  events,     \* the vector being filled
  pc          \* "scan", "parsed" or "exited" (usage error)

vars == <<list, next, num_events, events, pc>>

Kinds == {"raw", "test", "code", "mask", "junk"}
EventLimit == 4

\* The mask of an event that is pushed before any was assigned to it: the
\* member is left uninitialised, and holds what an earlier event of the list
\* left in its place, or something else (0).
Indeterminate(i) == {0} \cup {j \in 1..(i - 1) : list[j] # "code"}

Token(i) == IF i <= Len(list) THEN list[i] ELSE "end"

Init ==
  /\ list \in UNION {[1..n -> Kinds] : n \in 0..MaxTokens}
  /\ next = 1 /\ num_events = 0 /\ events = <<>> /\ pc = "scan"

Push(id, mask) == events' = Append(events, [id |-> id, mask |-> mask])

\* Mutant: the last event allowed is turned down.
RoomForOneLess == num_events + 1 < EventLimit
Room == num_events + 1 <= EventLimit

\* A token begins another event, if there may be one more.
Begin ==
  /\ pc = "scan" /\ next <= Len(list)
  /\ Room
  /\ num_events' = num_events + 1

TooMany ==
  /\ pc = "scan" /\ next <= Len(list)
  /\ ~Room
  /\ num_events' = num_events + 1
  /\ pc' = "exited" /\ UNCHANGED <<list, next, events>>

\* Formats that need one token: the mask is part of it.
OneToken ==
  /\ Begin /\ Token(next) \in {"raw", "test"}
  /\ Push(next, next)
  /\ next' = next + 1 /\ UNCHANGED <<list, pc>>

\* An event id, with the look at the token behind it.
MaskFollows == Token(next + 1) = "mask"
\* Mutant: a token that is no mask is dropped, there is no jump to "skip".
AfterCodeDropping == next + 2
AfterCode == IF MaskFollows THEN next + 2 ELSE next + 1
MaskOfCode == IF MaskFollows THEN {next + 1} ELSE Indeterminate(next)

Code ==
  /\ Begin /\ Token(next) = "code"
  /\ \E mask \in MaskOfCode : Push(next, mask)
  /\ next' = AfterCode
  /\ UNCHANGED <<list, pc>>

\* A mask where an event should begin is no hexadecimal number either.
IllFormed ==
  /\ Begin /\ Token(next) \in {"mask", "junk"}
  /\ pc' = "exited" /\ UNCHANGED <<list, next, events>>

\* No token is left; an empty vector is dropped for NULL: nothing is counted.
EndOfList ==
  /\ pc = "scan" /\ next > Len(list)
  /\ pc' = "parsed" /\ UNCHANGED <<list, next, num_events, events>>

Scan == TooMany \/ OneToken \/ Code \/ IllFormed \/ EndOfList
Terminated == pc \in {"parsed", "exited"} /\ UNCHANGED vars

Next == Scan \/ Terminated
Spec == Init /\ [][Next]_vars

----------------------------------------------------------------------------
\* What a list means, read off at once: an event begins at every token that
\* is no mask, and a mask belongs to the event id before it. An event id
\* without one is outside the documented format, and its mask is not known.
EventsAt ==
  LET upto[i \in 0..Len(list)] ==
        IF i = 0 THEN <<>>
        ELSE IF list[i] \in {"raw", "test", "code"} THEN Append(upto[i - 1], i)
        ELSE upto[i - 1]
  IN  upto[Len(list)]
MaskFor(i) ==
  IF list[i] # "code" THEN {i}
  ELSE IF Token(i + 1) = "mask" THEN {i + 1}
  ELSE Indeterminate(i)
WellFormed ==
  \A i \in DOMAIN list :
    /\ list[i] # "junk"
    /\ list[i] = "mask" => i > 1 /\ list[i - 1] = "code"

\* The loop that looks ahead and jumps into itself neither loses an event nor
\* takes one twice, gives each the mask the list has for it, if it has one,
\* and accepts no list that is ill-formed or longer than the limit.
ParsedAsGiven ==
  pc = "parsed" =>
    /\ WellFormed /\ Len(EventsAt) <= EventLimit
    /\ Len(events) = Len(EventsAt)
    /\ \A n \in 1..Len(EventsAt) :
         events[n].id = EventsAt[n] /\ events[n].mask \in MaskFor(EventsAt[n])

\* Nor does it turn down a list of up to four well-formed events, masks not
\* counted.
RejectsWithReason ==
  pc = "exited" => ~WellFormed \/ Len(EventsAt) > EventLimit

=============================================================================
