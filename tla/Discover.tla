------------------------------ MODULE Discover ------------------------------
(***************************************************************************)
(* cards_in (discover.rs): the DRM cards and their connectors, from one    *)
(* pass over the names in /sys/class/drm, while cards and connectors come  *)
(* and go.  A name is its number, as digits, and what follows it: nothing  *)
(* for the card itself, else the connector; other names have no number.    *)
(***************************************************************************)
EXTENDS Integers, SequencesExt, Subsequences

CONSTANTS
  Cards,        \* the cards' numbers, each a sequence of digits
  Connectors,   \* the names a connector may have on its card
  MaxChanges    \* bound: hotplug changes during one call

VARIABLES
  dir,        \* the entries of the class directory
  stayed,     \* history: those there since the call began
  changes,    \* hotplug changes so far
  pc,         \* "read", "link" or "done"
  names,      \* the names read, in the directory's order
  cards       \* the CardInfos: digits, driver bound or not, connectors

vars == <<dir, stayed, changes, pc, names, cards>>

Card(c) == [digits |-> c, tail |-> ""]
Connector(c, n) == [digits |-> c, tail |-> n]
Other == [digits |-> <<>>, tail |-> "renderD128"]

Entries ==
  {Card(c) : c \in Cards} \union {Connector(c, n) : c \in Cards, n \in Connectors} \union {Other}

(* sysfs has a connector only below its card. *)
IsDirectory(d) == \A e \in d : e.tail \in Connectors => Card(e.digits) \in d

(* Fault: names are compared as strings. *)
IndexAsString(c) == FoldLeft(LAMBDA a, d : 10 * a + d, 0, c \o [i \in 1 .. 2 - Len(c) |-> 0])

(* digits.parse *)
Index(c) ==
  LET value[i \in 0 .. Len(c)] == IF i = 0 THEN 0 ELSE 10 * value[i - 1] + c[i]
  IN  value[Len(c)]

(* Fault: a card with two digits is taken for something else. *)
IsCardOneDigit(e) == e.tail = "" /\ Len(e.digits) = 1

(* card_index: only "card" and digits is a card. *)
IsCard(e) == e.tail = "" /\ e.digits # <<>>

(* Fault: the prefix is compared without the dash behind the number, so    *)
(* that another card's connector is taken for the card's.                  *)
IsConnectorOfPrefix(e, c) == e.tail # "" /\ c # <<>> /\ IsPrefix(c, e.digits)

IsConnectorOf(e, c) == e.tail # "" /\ e.digits = c

Init ==
  /\ dir \in {d \in SUBSET Entries : IsDirectory(d)}
  /\ stayed = dir
  /\ changes = 0
  /\ pc = "read"
  /\ names = <<>> /\ cards = <<>>

(* A connector or a whole card appears or goes. *)
Hotplug ==
  /\ changes < MaxChanges /\ pc # "done"
  /\ \E e \in Entries \ {Other} :
       /\ dir' = IF e \notin dir THEN dir \union {e}
                 ELSE IF IsCard(e) THEN {f \in dir : f.digits # e.digits} ELSE dir \ {e}
       /\ IsDirectory(dir')
  /\ stayed' = stayed \intersect dir'
  /\ changes' = changes + 1
  /\ UNCHANGED <<pc, names, cards>>

(* read_dir gives the entries in any order, each at most once. *)
ReadEntry ==
  /\ pc = "read"
  /\ \E e \in dir \ ToSet(names) : names' = Append(names, e)
  /\ UNCHANGED <<dir, stayed, changes, pc, cards>>

(* It misses none that stayed; one that came or went may be missing. *)
ReadDone ==
  /\ pc = "read" /\ stayed \subseteq ToSet(names)
  /\ pc' = "link"
  /\ UNCHANGED <<dir, stayed, changes, names, cards>>

Listed == Among(names, {e \in ToSet(names) : IsCard(e)})

(* filter_map, the next card: its driver link is read now, if it is still  *)
(* there, and its connectors are those among the names read before.        *)
NextCard ==
  /\ pc = "link" /\ Len(cards) < Len(Listed)
  /\ LET c == Listed[Len(cards) + 1].digits
     IN  \E bound \in {FALSE, Card(c) \in dir} :
           cards' = Append(cards, [digits |-> c, driver |-> bound, connectors |->
                      {e.tail : e \in {f \in ToSet(names) : IsConnectorOf(f, c)}}])
  /\ UNCHANGED <<dir, stayed, changes, pc, names>>

(* sort_by_key, which is stable. *)
SortCards ==
  /\ pc = "link" /\ Len(cards) = Len(Listed)
  /\ \E order \in Bijection(DOMAIN cards, DOMAIN cards) :
       /\ \A i, j \in DOMAIN cards :
            i < j => LET a == Index(cards[order[i]].digits)
                         b == Index(cards[order[j]].digits)
                     IN  a < b \/ (a = b /\ order[i] < order[j])
       /\ cards' = [i \in DOMAIN cards |-> cards[order[i]]]
  /\ pc' = "done"
  /\ UNCHANGED <<dir, stayed, changes, names>>

Done == pc = "done" /\ UNCHANGED vars

Next == Hotplug \/ ReadEntry \/ ReadDone \/ NextCard \/ SortCards \/ Done

Spec == Init /\ [][Next]_vars

-----------------------------------------------------------------------------
(* Whatever comes and goes meanwhile, a card that is there all the time is *)
(* listed exactly once, and so is each of its connectors that stays, and   *)
(* with it no connector of another card, one whose number begins with the  *)
(* same digits included.                                                   *)
StayedListed ==
  pc = "done" =>
    \A c \in Cards :
      Card(c) \in stayed =>
        \E i \in DOMAIN cards :
          /\ cards[i].digits = c
          /\ \A j \in DOMAIN cards \ {i} : cards[j].digits # c
          /\ \A e \in stayed : e.tail \in Connectors /\ e.digits = c => e.tail \in cards[i].connectors

ConnectorsOwn ==
  \A i \in DOMAIN cards :
    \A n \in cards[i].connectors : Connector(cards[i].digits, n) \in ToSet(names)

(* "sorted by card index": the first card is the one with the lowest       *)
(* number, whatever order the directory has, so that find prefers the same *)
(* card on every boot.                                                     *)
SortedByIndex ==
  pc = "done" =>
    \A i, j \in DOMAIN cards : i < j => Index(cards[i].digits) < Index(cards[j].digits)

(* What find relies on, whatever comes and goes during the listing. *)
CardsListed == StayedListed /\ ConnectorsOwn /\ SortedByIndex

=============================================================================
