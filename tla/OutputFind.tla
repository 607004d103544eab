----------------------------- MODULE OutputFind -----------------------------
(***************************************************************************)
(* Output selection (wana-drm/src/output.rs, with discover.rs and the      *)
(* queries of card.rs): cards in index order, connectors in the kernel's   *)
(* order, the first one that is connected, has modes and can be given a    *)
(* CRTC.  Each query of the kernel is two calls, one for the counts and    *)
(* one for the data, and displays are plugged, unplugged and, behind an    *)
(* MST hub, added and removed between any two calls.                       *)
(***************************************************************************)
EXTENDS Naturals, SequencesExt, FiniteSetsExt, Subsequences

CONSTANTS
  Cards,        \* card indices
  Connectors,   \* connector ids
  Hardware,     \* what a card can be: a set of records, see HardwareAssumption
  None,         \* no connector, no CRTC
  MaxChanges    \* bound: hotplug events during one search

ASSUME CardsAssumption == Cards \subseteq Nat /\ IsFiniteSet(Cards)
ASSUME NoneAssumption == None \notin Connectors
ASSUME ChangesAssumption == MaxChanges \in Nat

(* opens, dumb: the node opens and has dumb buffers; conns: its connectors *)
(* in the kernel's order; crtcs: its CRTCs; encoders[k]: the encoders of k *)
(* and current[k] the one that drives k; possible[e]: the positions in     *)
(* crtcs that e can use, and crtcOf[e] the CRTC it is attached to.  Ids    *)
(* are unique, none of them is 0 (None), and a connector is driven by one  *)
(* of its own encoders and that by a CRTC it can use.                      *)
ASSUME HardwareAssumption ==
  \A h \in Hardware :
    /\ h.opens \in BOOLEAN /\ h.dumb \in BOOLEAN
    /\ h.conns \in Seq(Connectors) /\ IsInjective(h.conns)
    /\ h.crtcs \in Seq(Range(h.crtcs))
    /\ None \notin Range(h.crtcs) \union DOMAIN h.possible
    /\ \A k \in Connectors :
         /\ h.encoders[k] \in Seq(DOMAIN h.possible)
         /\ h.current[k] \in Range(h.encoders[k]) \union {None}
    /\ \A e \in DOMAIN h.possible :
         /\ h.possible[e] \subseteq DOMAIN h.crtcs
         /\ h.crtcOf[e] \in {h.crtcs[i] : i \in h.possible[e]} \union {None}

VARIABLES
  pc,        \* the call the search is at
  hw,        \* hw[c]: what card c is
  status,    \* status[c][k]: the connector now
  changes,   \* hotplug events so far
  listed,    \* the cards to try, in order
  ci,        \* the card the search is at, an index into listed
  res,       \* the connectors of that card, from `resources`
  ki,        \* the connector it is at, an index into res
  count,     \* the count that the first call of a query returned
  conn,      \* the connector's status, from `connector`
  out,       \* the selected output or NoOutput
  usable,    \* the displays <<c, k>> that were usable all the time so far
  refused    \* <<c, why>>: card c answered a call with an error; why is
             \* "gone" when it had removed the connector, "error" otherwise

world == <<hw, status, changes, usable>>
query == <<res, ki, count, conn>>
vars == <<pc, world, listed, ci, query, out, refused>>

(* "blank": connected without modes.  "disconnected" stands for an unknown *)
(* connection as well: both are passed over.                               *)
Statuses == {"connected", "blank", "disconnected", "absent"}

NoOutput == [card |-> None, conn |-> None, crtc |-> None]

Modes(s) == IF s = "connected" THEN 1 ELSE 0

(* The connectors a card reports now, in the kernel's order. *)
Present(c) == Among(hw[c].conns, {k \in Connectors : status[c][k] # "absent"})

(* Fault: possible_crtcs is not looked at. *)
CrtcForAnyEncoder(h, k) ==
  IF h.encoders[k] = <<>> THEN None ELSE h.crtcs[1]

(* Card::crtc_for: the CRTC the connector's encoder is attached to, or the *)
(* first one that the first of its encoders with any can use.              *)
CrtcFor(h, k) ==
  LET attached == IF h.current[k] = None THEN None ELSE h.crtcOf[h.current[k]]
      able == {i \in DOMAIN h.encoders[k] : h.possible[h.encoders[k][i]] # {}}
  IN  IF attached # None THEN attached
      ELSE IF able = {} THEN None
      ELSE h.crtcs[Min(h.possible[h.encoders[k][Min(able)]])]

(* The CRTCs that some encoder of the connector can use. *)
Drivable(h, k) ==
  {h.crtcs[i] : i \in UNION {h.possible[e] : e \in ToSet(h.encoders[k])}}

IsUsable(c, k) ==
  /\ hw[c].opens /\ hw[c].dumb
  /\ k \in ToSet(hw[c].conns)
  /\ status[c][k] = "connected"
  /\ Drivable(hw[c], k) # {}

Probing == {"resources", "resources2", "connector", "connector2", "select"}

Init ==
  /\ pc = "list"
  /\ hw \in [Cards -> Hardware]
  /\ status \in [Cards -> [Connectors -> Statuses]]
  /\ \A c \in Cards, k \in Connectors :
       k \notin ToSet(hw[c].conns) => status[c][k] = "absent"
  /\ changes = 0
  /\ listed = <<>> /\ ci = 1
  /\ res = <<>> /\ ki = 1 /\ count = 0 /\ conn = "absent"
  /\ out = NoOutput
  /\ usable = {ck \in Cards \X Connectors : IsUsable(ck[1], ck[2])}
  /\ refused = {}

-----------------------------------------------------------------------------
(* The kernel and the user: a display or a connector comes or goes. *)
Hotplug ==
  /\ pc # "end" /\ changes < MaxChanges
  /\ \E c \in Cards : \E k \in ToSet(hw[c].conns) : \E s \in Statuses \ {status[c][k]} :
       /\ status' = [status EXCEPT ![c][k] = s]
       /\ usable' = usable \ {<<c, k>>}
  /\ changes' = changes + 1
  /\ UNCHANGED <<pc, hw, listed, ci, query, out, refused>>

(* cards_in: all of them, sorted by card index. *)
CardOrder ==
  {cards \in SetToSeqs(Cards) : \A i, j \in DOMAIN cards : i < j => cards[i] < cards[j]}

(* find: the device that was named, or the cards of the system. *)
ListCards ==
  /\ pc = "list"
  /\ \/ \E c \in Cards : listed' = <<c>>
     \/ listed' \in CardOrder
  /\ pc' = IF listed' = <<>> THEN "end" ELSE "open"
  /\ UNCHANGED <<world, ci, query, out, refused>>

(* find: /sys/class/drm or one of its entries cannot be read (cards_in),   *)
(* and the error is find's answer.                                         *)
ListFails ==
  /\ pc = "list"
  /\ pc' = "end"
  /\ UNCHANGED <<world, listed, ci, query, out, refused>>

(* find, on any result of probe but an output: the next card, if any. *)
NextCard ==
  /\ ci' = ci + 1
  /\ pc' = IF ci < Len(listed) THEN "open" ELSE "end"

(* The same for connectors, in probe. *)
NextConnector ==
  /\ ki' = ki + 1
  /\ IF ki < Len(res)
       THEN pc' = "connector" /\ UNCHANGED ci
       ELSE NextCard

(* probe: open, the driver's version and the dumb buffer capability. *)
OpenCard ==
  /\ pc = "open"
  /\ IF hw[listed[ci]].opens /\ hw[listed[ci]].dumb
       THEN pc' = "resources" /\ UNCHANGED ci
       ELSE NextCard
  /\ UNCHANGED <<world, listed, query, out, refused>>

(* resources: the first call, for the counts. *)
CountResources ==
  /\ pc = "resources"
  /\ count' = Len(Present(listed[ci]))
  /\ pc' = "resources2"
  /\ UNCHANGED <<world, listed, ci, res, ki, conn, out, refused>>

(* Fault: the second call is repeated with the counts of the first. *)
ReadResourcesAgain ==
  /\ pc = "resources2"
  /\ LET now == Present(listed[ci])
     IN  IF Len(now) # count
           THEN UNCHANGED <<pc, ci, res, ki>>
           ELSE /\ res' = now
                /\ ki' = 1
                /\ IF now = <<>> THEN NextCard ELSE pc' = "connector" /\ UNCHANGED ci
  /\ UNCHANGED <<world, listed, count, conn, out, refused>>

(* Fault: what fits in the arrays is taken, without looking at the counts. *)
ReadResourcesOnce ==
  /\ pc = "resources2"
  /\ LET now == Present(listed[ci])
     IN  res' = SubSeq(now, 1, Min({count, Len(now)}))
  /\ ki' = 1
  /\ IF res' = <<>> THEN NextCard ELSE pc' = "connector" /\ UNCHANGED ci
  /\ UNCHANGED <<world, listed, count, conn, out, refused>>

(* resources: the second call; a hotplug in between starts it again. *)
ReadResources ==
  /\ pc = "resources2"
  /\ LET now == Present(listed[ci])
     IN  IF Len(now) # count
           THEN pc' = "resources" /\ UNCHANGED <<ci, res, ki>>
           ELSE /\ res' = now
                /\ ki' = 1
                /\ IF now = <<>> THEN NextCard ELSE pc' = "connector" /\ UNCHANGED ci
  /\ UNCHANGED <<world, listed, count, conn, out, refused>>

Now == status[listed[ci]][res[ki]]

(* connector: the first call, for the counts. *)
CountModes ==
  /\ pc = "connector" /\ Now # "absent"
  /\ count' = Modes(Now)
  /\ pc' = "connector2"
  /\ UNCHANGED <<world, listed, ci, res, ki, conn, out, refused>>

(* connector: the second call; different counts start it again. *)
ReadConnector ==
  /\ pc = "connector2" /\ Now # "absent"
  /\ IF Modes(Now) # count
       THEN pc' = "connector" /\ UNCHANGED conn
       ELSE pc' = "select" /\ conn' = Now
  /\ UNCHANGED <<world, listed, ci, res, ki, count, out, refused>>

(* connector: the connector was removed, ENOENT.  The error ends probe,    *)
(* and with it the search on this card.                                    *)
ConnectorGone ==
  /\ pc \in {"connector", "connector2"} /\ Now = "absent"
  /\ NextCard
  /\ refused' = refused \union {<<listed[ci], "gone">>}
  /\ UNCHANGED <<world, listed, query, out>>

(* probe: the checks on the connector, and the output. *)
SelectOutput ==
  /\ pc = "select"
  /\ LET c == listed[ci]
         crtc == CrtcFor(hw[c], res[ki])
     IN  IF conn = "connected" /\ crtc # None
           THEN /\ out' = [card |-> c, conn |-> res[ki], crtc |-> crtc]
                /\ pc' = "end"
                /\ UNCHANGED <<ci, ki>>
           ELSE NextConnector /\ UNCHANGED out
  /\ UNCHANGED <<world, listed, res, count, conn, refused>>

(* Any call of probe may fail for another reason. *)
CallFails ==
  /\ pc \in Probing \union {"open"}
  /\ NextCard
  /\ refused' = refused \union {<<listed[ci], "error">>}
  /\ UNCHANGED <<world, listed, query, out>>

Search ==
  \/ ListCards \/ OpenCard \/ CountResources \/ ReadResources
  \/ CountModes \/ ReadConnector \/ ConnectorGone \/ SelectOutput

Ended == pc = "end" /\ UNCHANGED vars

Next == Search \/ ListFails \/ CallFails \/ Hotplug \/ Ended

Spec == Init /\ [][Next]_vars

(* The search runs on; nothing is assumed of the user or of errors. *)
FairSpec == Spec /\ WF_vars(Search)

-----------------------------------------------------------------------------
(* Whether <<c, k>> comes no later than the output in the search order.    *)
FoundBy(c, k) ==
  /\ out # NoOutput
  /\ \/ out.card < c
     \/ /\ out.card = c
        /\ \E i, j \in DOMAIN hw[c].conns :
             i <= j /\ hw[c].conns[i] = out.conn /\ hw[c].conns[j] = k

(* find: "Finds the first card (in card-index order) with a connected      *)
(* display": a display that was usable all through the search is found, or *)
(* one before it, whatever is plugged and unplugged in the meantime.  Not  *)
(* if its card is among those in `lost`.                                   *)
StableDisplayFoundUnless(lost) ==
  pc = "end" =>
    \A ck \in usable : ck[1] \in ToSet(listed) \ lost => FoundBy(ck[1], ck[2])

(* It is found on every card that answers all calls. *)
StableDisplayFound == StableDisplayFoundUnless({r[1] : r \in refused})

(* It is found even when a connector of the same card, another one, is     *)
(* removed during the search.  It is not: GETCONNECTOR's ENOENT for that   *)
(* one connector makes probe give up the card and all its displays.        *)
StableDisplayFoundDespiteRemoval ==
  StableDisplayFoundUnless({r[1] : r \in {x \in refused : x[2] = "error"}})

(* The output can be used together: its CRTC can drive its connector, and  *)
(* the connector had modes to select from when it was read.                *)
OutputDrivable ==
  out # NoOutput =>
    /\ out.crtc \in Drivable(hw[out.card], out.conn)
    /\ Modes(conn) > 0

(* The retries of the two-call queries end: so does the search.            *)
SearchEnds == <>(pc = "end")

=============================================================================
