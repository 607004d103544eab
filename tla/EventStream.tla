---------------------------- MODULE EventStream -----------------------------
(***************************************************************************)
(* Card::read_flip_events against the kernel's queue of events.  Flips     *)
(* complete and other events arrive at any time; read(2) blocks while the  *)
(* queue is empty and otherwise takes as many whole events as fit into the *)
(* buffer; parse_events then looks for the completions among them.         *)
(***************************************************************************)
EXTENDS ParseEvents

CONSTANTS
  Buffer,       \* size of the buffer, in words (256 in the code)
  FlipLengths, OtherLengths,   \* lengths of the events the kernel sends
  MaxFlips, MaxOthers          \* bounds: events of either kind

ASSUME BufferAssumption ==
  \A n \in FlipLengths \union OtherLengths : n \in HEADER .. Buffer
ASSUME FlipLengthsAssumption == \A n \in FlipLengths : n >= VBLANK_EVENT

VARIABLES
  events,     \* the kernel's queue
  flips,      \* flips completed so far; each is numbered by its user_data
  others,     \* other events so far
  returned    \* the completions returned to the caller, as user_data

kernel == <<events, flips, others>>
vars == <<parser, kernel, returned>>

Init ==
  /\ pc = "idle" /\ bytes = <<>> /\ out = <<>>
  /\ events = <<>> /\ flips = 0 /\ others = 0
  /\ returned = <<>>

FlipCompletes ==
  /\ flips < MaxFlips
  /\ flips' = flips + 1
  /\ \E n \in FlipLengths : events' = Append(events, FlipWords(flips', n))
  /\ UNCHANGED <<parser, others, returned>>

OtherEvent ==
  /\ others < MaxOthers
  /\ others' = others + 1
  /\ \E n \in OtherLengths : events' = Append(events, OtherWords(n))
  /\ UNCHANGED <<parser, flips, returned>>

(* The first n events of the queue, as the bytes read(2) returns. *)
FirstEvents(n) == FlattenSeq(SubSeq(events, 1, n))

(* read(2): as many whole events as fit. *)
Read ==
  /\ pc = "idle"
  /\ \E n \in 1 .. Len(events) :
       /\ Len(FirstEvents(n)) <= Buffer
       /\ n < Len(events) => Len(FirstEvents(n + 1)) > Buffer
       /\ bytes' = FirstEvents(n)
       /\ events' = SubSeq(events, n + 1, Len(events))
  /\ pc' = "parse" /\ out' = <<>>
  /\ UNCHANGED <<flips, others, returned>>

(* The vector goes to the caller, which may find it empty. *)
Return ==
  /\ LoopOver
  /\ returned' = returned \o [i \in DOMAIN out |-> out[i].user_data]
  /\ pc' = "idle" /\ bytes' = <<>> /\ out' = <<>>
  /\ UNCHANGED kernel

Call == Read \/ (OneEvent /\ UNCHANGED <<kernel, returned>>) \/ Return

(* The queue is empty and stays so. *)
Quiet ==
  /\ pc = "idle" /\ events = <<>> /\ flips = MaxFlips /\ others = MaxOthers
  /\ UNCHANGED vars

Next == FlipCompletes \/ OtherEvent \/ Call \/ Quiet

(* A caller that calls again whenever it got an answer. *)
Spec == Init /\ [][Next]_vars /\ WF_vars(Call)

-----------------------------------------------------------------------------
(* The completions on their way: found by the loop, still in the bytes     *)
(* just read, or in the kernel's queue.                                    *)
Users(evs) ==
  LET fs == SelectSeq(evs, LAMBDA e : e[1] = FLIP_COMPLETE)
  IN  [i \in DOMAIN fs |-> fs[i][3]]

(* The words of a byte string event by event. *)
Whole[b \in Seq(Nat)] ==
  IF Len(b) < HEADER \/ b[2] < HEADER THEN <<>>
  ELSE <<SubSeq(b, 1, b[2])>> \o Whole[SubSeq(b, b[2] + 1, Len(b))]

InFlight ==
  [i \in DOMAIN out |-> out[i].user_data] \o Users(Whole[bytes]) \o Users(events)

(* read_flip_events implements the queue: each completion is returned      *)
(* exactly once and in order, over any number of calls, any mixture with   *)
(* other events and a buffer that holds only part of the queue, and a      *)
(* caller that keeps calling gets them all.  A call may return nothing,    *)
(* when only other events were read.                                       *)
Queue == INSTANCE EventQueue WITH waiting <- InFlight, returned <- returned

ImplementsQueue == Queue!Spec

=============================================================================
