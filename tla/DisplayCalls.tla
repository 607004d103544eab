---------------------------- MODULE DisplayCalls ----------------------------
(***************************************************************************)
(* The calls of a display program that compute something from what they    *)
(* are given and keep no state behind: cards_in lists the cards, select    *)
(* chooses the mode, paint (and the shader) draws the picture of that mode *)
(* and parse_events takes the bytes read from the card apart.  A behaviour *)
(* is one such call on any of its inputs; the state of the others is idle. *)
(***************************************************************************)
EXTENDS TestPattern, Sequences

CONSTANTS Lists, NoMode, Cards, Connectors, MaxChanges, Lengths, FlipLengths, Tails

(* A mode's size and rate are counts, and a connector's list is finite. *)
ASSUME ListsAssumption ==
  Lists \subseteq Seq([w : Nat, h : Nat, refresh : Nat, preferred : BOOLEAN])

(* A card's number is written without a zero in front of it. *)
ASSUME CardsAssumption ==
  /\ Cards \subseteq Seq(0 .. 9)
  /\ \A c \in Cards : c # <<>> /\ (c[1] = 0 => Len(c) = 1)
ASSUME ConnectorsAssumption == "" \notin Connectors

(* There is a display and a state of the bar. *)
ASSUME DisplayAssumption == Sizes # {} /\ Progress # {}

(* The kernel's events have a whole header and its completions all fields; *)
(* in what follows them, no word begins a whole completion.                *)
ASSUME LengthsAssumption ==
  /\ \A n \in Lengths : n \in Nat /\ n >= 2
  /\ \A n \in FlipLengths : n \in Nat /\ n >= 8
ASSUME TailsAssumption ==
  \A t \in Tails :
    /\ t \in Seq(Nat)
    /\ \A i \in 1 .. Len(t) - 1 : t[i] = 2 => t[i + 1] < 8 \/ t[i + 1] > Len(t) - i + 1

VARIABLES
  modes, mode, done,                              \* select
  dir, stayed, changes, listing, names, cards,    \* cards_in
  parsing, bytes, out, events                     \* parse_events

selectVars == <<modes, mode, done>>
listVars == <<dir, stayed, changes, listing, names, cards>>
parseVars == <<parsing, bytes, out, events>>

M == INSTANCE ModeSelect
D == INSTANCE Discover WITH pc <- listing
B == INSTANCE ByteStrings WITH pc <- parsing

NotSelecting == modes = <<>> /\ mode = NoMode /\ done = TRUE
NotListing ==
  /\ dir = {} /\ stayed = {} /\ changes = 0
  /\ listing = "done" /\ names = <<>> /\ cards = <<>>
NotParsing == parsing = "idle" /\ bytes = <<>> /\ out = <<>> /\ events = <<>>
NotPainting ==
  /\ size = CHOOSE s \in Sizes : TRUE
  /\ progress = CHOOSE p \in Progress : TRUE
  /\ y = H /\ row = <<>>

CallInit ==
  \/ M!Init /\ NotListing /\ NotParsing /\ NotPainting
  \/ D!Init /\ NotSelecting /\ NotParsing /\ NotPainting
  \/ B!Init /\ NotSelecting /\ NotListing /\ NotPainting
  \/ Init /\ NotSelecting /\ NotListing /\ NotParsing

CallNext ==
  \/ M!Next /\ UNCHANGED <<listVars, parseVars, vars>>
  \/ D!Next /\ UNCHANGED <<selectVars, parseVars, vars>>
  \/ B!Next /\ UNCHANGED <<selectVars, listVars, vars>>
  \/ Next /\ UNCHANGED <<selectVars, listVars, parseVars>>

CallSpec == CallInit /\ [][CallNext]_<<selectVars, listVars, parseVars, vars>>

-----------------------------------------------------------------------------
(* find drives the mode select's documentation promises: the preferred     *)
(* resolution, at its highest rate, in whatever order the modes come.      *)
DocumentedChoice == M!DocumentedChoice

(* A card or connector that stays while others come and go is listed once, *)
(* under its own card, and the cards are sorted by number.                 *)
CardsListed == D!CardsListed

(* parse_events returns every completion in a byte string, in order, past  *)
(* events of other kinds and whatever malformed end, and never panics.     *)
WholeEventsReturned == B!WholeEventsReturned

=============================================================================
