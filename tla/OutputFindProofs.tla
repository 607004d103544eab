-------------------------- MODULE OutputFindProofs --------------------------
(***************************************************************************)
(* find for any number of cards, connectors and hotplug events: the output *)
(* it returns can be driven, and a display that was usable all the time is *)
(* found, or one before it.                                                *)
(***************************************************************************)
EXTENDS OutputFind, SequenceLemmas

(* crtc_for finds a CRTC exactly if the connector has one, and then one of *)
(* its own.                                                                *)
LEMMA CrtcForDrives ==
  ASSUME NEW h \in Hardware, NEW k \in Connectors
  PROVE  /\ CrtcFor(h, k) # None => CrtcFor(h, k) \in Drivable(h, k)
         /\ CrtcFor(h, k) = None => Drivable(h, k) = {}
<1> DEFINE enc == h.encoders[k]
           attached == IF h.current[k] = None THEN None ELSE h.crtcOf[h.current[k]]
           able == {i \in DOMAIN enc : h.possible[enc[i]] # {}}
<1>1. /\ h.crtcs \in Seq(Range(h.crtcs))
      /\ None \notin Range(h.crtcs) /\ None \notin DOMAIN h.possible
      /\ enc \in Seq(DOMAIN h.possible)
      /\ h.current[k] \in Range(enc) \union {None}
      /\ \A e \in DOMAIN h.possible :
           /\ h.possible[e] \subseteq DOMAIN h.crtcs
           /\ h.crtcOf[e] \in {h.crtcs[i] : i \in h.possible[e]} \union {None}
  BY HardwareAssumption, Zenon
<1>2. Drivable(h, k) = {h.crtcs[i] : i \in UNION {h.possible[e] : e \in Range(enc)}}
  BY DEF Drivable, ToSet, Range
<1>3. Range(enc) \subseteq DOMAIN h.possible
  BY <1>1, RangeOfSeq
<1>4. ASSUME NEW e \in Range(enc), NEW i \in h.possible[e]
      PROVE  h.crtcs[i] \in Drivable(h, k) /\ h.crtcs[i] # None
  BY <1>1, <1>2, <1>3 DEF Range
<1>5. CASE attached # None
  <2>1. h.current[k] \in Range(enc) /\ h.crtcOf[h.current[k]] # None
    BY <1>1, <1>5
  <2>2. PICK i \in h.possible[h.current[k]] : attached = h.crtcs[i]
    BY <1>1, <1>3, <2>1
  <2>3. attached \in Drivable(h, k)
    BY <1>4, <2>1, <2>2
  <2>4. QED
    BY <1>5, <2>3 DEF CrtcFor
<1>6. CASE attached = None /\ able = {}
  <2>1. \A e \in Range(enc) : h.possible[e] = {}
    BY <1>6 DEF Range
  <2>2. Drivable(h, k) = {}
    BY <1>2, <2>1
  <2>3. CrtcFor(h, k) = None
    BY <1>6 DEF CrtcFor
  <2>4. QED
    BY <2>2, <2>3
<1>7. CASE attached = None /\ able # {}
  <2>1. able \subseteq Nat
    BY <1>1
  <2>2. Min(able) \in able
    BY <1>7, <2>1, MinIsLeast
  <2> DEFINE e == enc[Min(able)]
  <2>3. e \in Range(enc) /\ h.possible[e] # {}
    BY <2>2 DEF Range
  <2>4. h.possible[e] \subseteq Nat
    <3>1. DOMAIN h.crtcs \subseteq Nat
      BY <1>1
    <3>2. e \in DOMAIN h.possible
      BY <1>3, <2>3
    <3>3. QED
      BY <1>1, <3>1, <3>2, Zenon
  <2>5. Min(h.possible[e]) \in h.possible[e]
    BY <2>3, <2>4, MinIsLeast
  <2>6. CrtcFor(h, k) = h.crtcs[Min(h.possible[e])]
    BY <1>7 DEF CrtcFor
  <2>7. QED
    BY <1>4, <2>3, <2>5, <2>6
<1>8. QED
  BY <1>5, <1>6, <1>7

-----------------------------------------------------------------------------
Walking == {"connector", "connector2", "select"}

Types ==
  /\ pc \in {"list", "open", "end"} \union Probing
  /\ hw \in [Cards -> Hardware]
  /\ status \in [Cards -> [Connectors -> Statuses]]
  /\ usable \subseteq Cards \X Connectors
  /\ listed \in Seq(Cards)
  /\ ci \in Nat \ {0} /\ ki \in Nat \ {0}
  /\ pc = "list" => ci = 1 /\ listed = <<>>
  /\ pc \in Probing \union {"open"} => ci <= Len(listed)
  /\ res \in Seq(Connectors)
  /\ conn \in Statuses
  /\ pc # "end" => out = NoOutput

(* The cards are tried in the order of their numbers. *)
InOrder == \A i, j \in DOMAIN listed : i < j => listed[i] < listed[j]

(* A display that was usable all the time is usable now. *)
StillUsable == \A c \in Cards, k \in Connectors : <<c, k>> \in usable => IsUsable(c, k)

Lost == {r[1] : r \in refused}

(* A card is left behind only if it has no such display or refused a call. *)
Passed(c) == \A k \in Connectors : <<c, k>> \in usable => c \in Lost

CardsPassed ==
  pc \notin {"list", "end"} => \A j \in DOMAIN listed : j < ci => Passed(listed[j])

(* The connectors of the card at hand are in the kernel's order, and those *)
(* of such displays are still to come.  One just read is connected.        *)
ConnectorsLeft ==
  pc \in Walking =>
    LET c == listed[ci]
    IN  /\ ki <= Len(res)
        /\ \E at \in [1 .. Len(res) -> 1 .. Len(hw[c].conns)] : Embeds(at, res, hw[c].conns)
        /\ \A k \in Connectors :
             <<c, k>> \in usable => \E m \in ki .. Len(res) : res[m] = k
        /\ pc = "select" /\ <<c, res[ki]>> \in usable => conn = "connected"

IInv ==
  /\ Types /\ InOrder /\ StillUsable
  /\ CardsPassed /\ ConnectorsLeft
  /\ StableDisplayFound /\ OutputDrivable

-----------------------------------------------------------------------------
LEMMA InitInv == Init => IInv
<1> SUFFICES ASSUME Init PROVE IInv
  OBVIOUS
<1>1. Types /\ InOrder
  BY DEF Init, Types, InOrder, Probing, Statuses
<1>2. StillUsable
  BY DEF Init, StillUsable
<1>3. QED
  BY <1>1, <1>2 DEF Init, IInv, CardsPassed, ConnectorsLeft, Walking, StableDisplayFound,
       StableDisplayFoundUnless, OutputDrivable

(* The next card, or none, after one without an unrefused usable display.  *)
LEMMA NextCardStep ==
  ASSUME IInv, pc \in Probing \union {"open"}, NextCard,
         UNCHANGED <<hw, status, usable, listed, out>>,
         res' \in Seq(Connectors), ki' \in Nat \ {0}, conn' \in Statuses,
         refused \subseteq refused',
         \A k \in Connectors : <<listed[ci], k>> \in usable => listed[ci] \in Lost'
  PROVE  IInv'
<1>0. /\ pc \notin {"list", "end"} /\ ci <= Len(listed) /\ out = NoOutput
      /\ ci \in Nat /\ listed \in Seq(Cards)
  BY DEF IInv, Types, Probing
<1>1. /\ \/ pc' = "open" /\ ci < Len(listed)
         \/ pc' = "end" /\ ci = Len(listed)
      /\ ci' = ci + 1 /\ UNCHANGED <<listed, out>>
  BY <1>0 DEF NextCard
<1>2. Types'
  BY <1>1 DEF IInv, Types, world, Probing
<1>3. InOrder' /\ StillUsable'
  BY DEF IInv, InOrder, StillUsable, IsUsable, Drivable
<1>4. Lost \subseteq Lost'
  BY DEF Lost
<1>5. \A j \in DOMAIN listed : j < ci' =>
        \A k \in Connectors : <<listed[j], k>> \in usable => listed[j] \in Lost'
  <2> TAKE j \in DOMAIN listed
  <2>1. CASE j = ci
    BY <2>1
  <2>2. CASE j < ci
    <3>1. Passed(listed[j])
      BY <1>0, <2>2 DEF IInv, CardsPassed
    <3>2. QED
      BY <1>4, <3>1 DEF Passed
  <2>3. QED
    BY <1>0, <1>1, <2>1, <2>2
<1>6. CardsPassed' /\ ConnectorsLeft'
  BY <1>1, <1>5 DEF CardsPassed, ConnectorsLeft, Passed, Walking, world, Probing
<1>7. StableDisplayFound'
  <2>1. SUFFICES ASSUME pc' = "end", NEW ck \in usable', ck[1] \in ToSet(listed'),
                        ck[1] \notin Lost'
                 PROVE  FALSE
    BY DEF StableDisplayFound, StableDisplayFoundUnless, Lost
  <2>2. PICK j \in DOMAIN listed : ck[1] = listed[j]
    BY <2>1 DEF ToSet
  <2>3. j < ci'
    BY <1>0, <1>1, <2>1
  <2>4. ck \in Cards \X Connectors /\ ck \in usable
    BY <2>1 DEF IInv, Types
  <2>5. ck[2] \in Connectors /\ <<listed[j], ck[2]>> \in usable
    BY <2>2, <2>4
  <2>6. QED
    BY <1>5, <2>1, <2>2, <2>3, <2>5
<1>8. OutputDrivable'
  BY <1>0, <1>1 DEF OutputDrivable
<1>9. QED
  BY <1>2, <1>3, <1>6, <1>7, <1>8 DEF IInv

(* A step within a card, after which its connectors are still in order.    *)
LEMMA ProbeStep ==
  ASSUME IInv, pc \in Probing \union {"open"}, pc' \in Probing,
         UNCHANGED <<hw, status, usable, listed, ci, out, refused>>,
         res' \in Seq(Connectors), ki' \in Nat \ {0}, conn' \in Statuses,
         ConnectorsLeft'
  PROVE  IInv'
<1>1. /\ pc \notin {"list", "end"} /\ pc' \notin {"list", "end"}
      /\ ci <= Len(listed) /\ out = NoOutput
  BY DEF IInv, Types, Probing
<1>2. Types'
  BY <1>1 DEF IInv, Types
<1>3. InOrder' /\ StillUsable'
  BY DEF IInv, InOrder, StillUsable, IsUsable, Drivable
<1>4. CardsPassed'
  BY <1>1 DEF IInv, CardsPassed, Passed, Lost
<1>5. StableDisplayFound' /\ OutputDrivable'
  BY <1>1 DEF StableDisplayFound, StableDisplayFoundUnless, OutputDrivable
<1>6. QED
  BY <1>2, <1>3, <1>4, <1>5 DEF IInv

LEMMA ListCardsStep == IInv /\ ListCards => IInv'
<1> SUFFICES ASSUME IInv, ListCards PROVE IInv'
  OBVIOUS
<1>1. listed' \in Seq(Cards) /\ \A i, j \in DOMAIN listed' : i < j => listed'[i] < listed'[j]
  <2>1. CASE \E c \in Cards : listed' = <<c>>
    BY <2>1
  <2>2. CASE listed' \in CardOrder
    <3>1. Cardinality(Cards) \in Nat
      BY CardsAssumption, FS_CardinalityType
    <3>2. listed' \in [1 .. Cardinality(Cards) -> Cards]
      BY <2>2 DEF CardOrder, SetToSeqs
    <3>3. QED
      BY <2>2, <3>1, <3>2 DEF CardOrder
  <2>3. QED
    BY <2>1, <2>2 DEF ListCards
<1>2. /\ pc = "list" /\ out = NoOutput /\ out' = NoOutput
      /\ \/ pc' = "end" /\ listed' = <<>>
         \/ pc' = "open" /\ listed' # <<>>
      /\ UNCHANGED <<hw, status, usable, ci, res, ki, conn, refused>>
  BY DEF ListCards, IInv, Types, world, query
<1>3. Types'
  <2>1. listed' # <<>> => 1 <= Len(listed')
    BY <1>1
  <2>2. QED
    BY <1>1, <1>2, <2>1 DEF IInv, Types, Probing
<1>4. InOrder' /\ StillUsable'
  BY <1>1, <1>2 DEF IInv, InOrder, StillUsable, IsUsable, Drivable
<1>5. CardsPassed' /\ ConnectorsLeft'
  <2>1. ci' = 1 /\ pc' \notin Walking
    BY <1>2 DEF IInv, Types, Walking
  <2>2. ~ \E j \in DOMAIN listed' : j < 1
    BY <1>1
  <2>3. QED
    BY <2>1, <2>2 DEF CardsPassed, ConnectorsLeft
<1>6. StableDisplayFound' /\ OutputDrivable'
  BY <1>2 DEF StableDisplayFound, StableDisplayFoundUnless, OutputDrivable, ToSet
<1>7. QED
  BY <1>3, <1>4, <1>5, <1>6 DEF IInv

LEMMA ListFailsStep == IInv /\ ListFails => IInv'
<1> SUFFICES ASSUME IInv, ListFails PROVE IInv'
  OBVIOUS
<1>1. /\ pc' = "end" /\ listed = <<>> /\ out = NoOutput
      /\ UNCHANGED <<hw, status, usable, listed, ci, res, ki, conn, out, refused>>
  BY DEF ListFails, IInv, Types, world, query
<1>2. Types'
  BY <1>1 DEF IInv, Types, Probing
<1>3. InOrder' /\ StillUsable'
  BY <1>1 DEF IInv, InOrder, StillUsable, IsUsable, Drivable
<1>4. CardsPassed' /\ ConnectorsLeft'
  BY <1>1 DEF CardsPassed, ConnectorsLeft, Walking
<1>5. StableDisplayFound' /\ OutputDrivable'
  BY <1>1 DEF StableDisplayFound, StableDisplayFoundUnless, OutputDrivable, ToSet
<1>6. QED
  BY <1>2, <1>3, <1>4, <1>5 DEF IInv

(* The card the search is at.                                              *)
LEMMA AtCard ==
  ASSUME IInv, pc \in Probing \union {"open"}
  PROVE  /\ listed[ci] \in Cards /\ hw[listed[ci]] \in Hardware
         /\ status[listed[ci]] \in [Connectors -> Statuses]
<1>1. ci \in DOMAIN listed
  BY DEF IInv, Types
<1>2. listed[ci] \in Cards
  BY <1>1 DEF IInv, Types
<1>3. QED
  BY <1>2 DEF IInv, Types

LEMMA OpenCardStep == IInv /\ OpenCard => IInv'
<1> SUFFICES ASSUME IInv, OpenCard PROVE IInv'
  OBVIOUS
<1>1. /\ pc = "open" /\ UNCHANGED <<hw, status, usable, listed, res, ki, conn, out, refused>>
      /\ res \in Seq(Connectors) /\ ki \in Nat \ {0} /\ conn \in Statuses
  BY DEF OpenCard, IInv, Types, world, query
<1>2. CASE hw[listed[ci]].opens /\ hw[listed[ci]].dumb
  <2>1. pc' = "resources" /\ ci' = ci
    BY <1>2 DEF OpenCard
  <2>2. ConnectorsLeft' /\ pc' \in Probing
    BY <2>1 DEF ConnectorsLeft, Walking, Probing
  <2>3. QED
    BY <1>1, <2>1, <2>2, ProbeStep
<1>3. CASE ~ (hw[listed[ci]].opens /\ hw[listed[ci]].dumb)
  <2>1. NextCard
    BY <1>3 DEF OpenCard
  <2>2. \A k \in Connectors : <<listed[ci], k>> \notin usable
    BY <1>1, <1>3, AtCard DEF IInv, StillUsable, IsUsable
  <2>3. QED
    BY <1>1, <2>1, <2>2, NextCardStep
<1>4. QED
  BY <1>2, <1>3

LEMMA CountResourcesStep == IInv /\ CountResources => IInv'
<1> SUFFICES ASSUME IInv, CountResources PROVE IInv'
  OBVIOUS
<1>1. /\ pc = "resources" /\ pc' = "resources2"
      /\ UNCHANGED <<hw, status, usable, listed, ci, res, ki, conn, out, refused>>
      /\ res \in Seq(Connectors) /\ ki \in Nat \ {0} /\ conn \in Statuses
  BY DEF CountResources, IInv, Types, world
<1>2. ConnectorsLeft' /\ pc \in Probing /\ pc' \in Probing
  BY <1>1 DEF ConnectorsLeft, Walking, Probing
<1>3. QED
  BY <1>1, <1>2, ProbeStep

(* What `resources` read: the connectors of the card in the kernel's order,*)
(* among them the displays that were usable all the time.                  *)
LEMMA PresentInOrder ==
  ASSUME IInv, pc \in Probing
  PROVE  LET c == listed[ci]
             now == Present(c)
         IN  /\ now \in Seq(Connectors)
             /\ \E at : Embeds(at, now, hw[c].conns)
             /\ \A k \in Connectors :
                  <<c, k>> \in usable => \E m \in 1 .. Len(now) : now[m] = k
<1> DEFINE c == listed[ci]
           conns == hw[c].conns
           there == {k \in Connectors : status[c][k] # "absent"}
           now == Among(conns, there)
<1>1. c \in Cards /\ hw[c] \in Hardware
  BY AtCard
<1>2. conns \in Seq(Connectors)
  BY <1>1, HardwareAssumption
<1>3. Present(c) = now
  BY DEF Present
<1>4. now \in Seq(Connectors)
  BY <1>2, AmongType
<1>5. \E at : Embeds(at, now, conns)
  BY <1>2, AmongOrder
<1>6. ASSUME NEW k \in Connectors, <<c, k>> \in usable
      PROVE  \E m \in 1 .. Len(now) : now[m] = k
  <2>1. k \in Range(conns) /\ k \in there
    BY <1>1, <1>6 DEF IInv, StillUsable, IsUsable, ToSet, Range
  <2>2. k \in Range(now)
    BY <1>2, <2>1, AmongRange
  <2> HIDE DEF now
  <2>3. QED
    BY <1>4, <2>2 DEF Range
<1>7. QED
  BY <1>3, <1>4, <1>5, <1>6

LEMMA ReadResourcesStep == IInv /\ ReadResources => IInv'
<1> SUFFICES ASSUME IInv, ReadResources PROVE IInv'
  OBVIOUS
<1> DEFINE c == listed[ci]
           now == Present(c)
<1>1. /\ pc = "resources2"
      /\ UNCHANGED <<hw, status, usable, listed, conn, out, refused>>
      /\ conn \in Statuses
  BY DEF ReadResources, IInv, Types, world
<1>2. /\ now \in Seq(Connectors)
      /\ \E at : Embeds(at, now, hw[c].conns)
      /\ \A k \in Connectors : <<c, k>> \in usable => \E m \in 1 .. Len(now) : now[m] = k
  BY <1>1, PresentInOrder DEF Probing
<1>3. pc \in Probing
  BY <1>1 DEF Probing
<1>4. CASE Len(now) # count
  <2>1. pc' = "resources" /\ UNCHANGED <<ci, res, ki>>
    BY <1>4 DEF ReadResources
  <2>2. ConnectorsLeft' /\ pc' \in Probing
    BY <2>1 DEF ConnectorsLeft, Walking, Probing
  <2>3. res \in Seq(Connectors) /\ ki \in Nat \ {0}
    BY DEF IInv, Types
  <2>4. QED
    BY <1>1, <1>3, <2>1, <2>2, <2>3, ProbeStep
<1>5. CASE Len(now) = count
  <2>1. /\ res' = now /\ ki' = 1
        /\ IF now = <<>> THEN NextCard ELSE pc' = "connector" /\ UNCHANGED ci
    BY <1>5 DEF ReadResources
  <2>2. CASE now = <<>>
    <3>1. \A k \in Connectors : <<c, k>> \notin usable
      BY <1>2, <2>2
    <3>2. QED
      BY <1>1, <1>2, <1>3, <2>1, <2>2, <3>1, NextCardStep
  <2>3. CASE now # <<>>
    <3>1. pc' = "connector" /\ ci' = ci /\ pc' \in Probing
      BY <2>1, <2>3 DEF Probing
    <3>2. ConnectorsLeft'
      <4>1. 1 <= Len(now)
        BY <1>2, <2>3
      <4>2. listed'[ci'] = c /\ usable' = usable /\ hw' = hw
        BY <1>1, <3>1
      <4> HIDE DEF now
      <4>3. QED
        BY <1>2, <2>1, <3>1, <4>1, <4>2 DEF ConnectorsLeft, Embeds
    <3>3. QED
      BY <1>1, <1>2, <1>3, <2>1, <3>1, <3>2, ProbeStep
  <2>4. QED
    BY <2>2, <2>3
<1>6. QED
  BY <1>4, <1>5

(* The connector the search is at.                                         *)
LEMMA AtConnector ==
  ASSUME IInv, pc \in Walking
  PROVE  res[ki] \in Connectors /\ Now \in Statuses
<1>1. pc \in Probing \union {"open"} /\ ki \in 1 .. Len(res)
  BY DEF IInv, Types, ConnectorsLeft, Walking, Probing
<1>2. res[ki] \in Connectors
  BY <1>1 DEF IInv, Types
<1>3. status[listed[ci]] \in [Connectors -> Statuses]
  BY <1>1, AtCard
<1>4. QED
  BY <1>2, <1>3 DEF Now

LEMMA CountModesStep == IInv /\ CountModes => IInv'
<1> SUFFICES ASSUME IInv, CountModes PROVE IInv'
  OBVIOUS
<1>1. /\ pc = "connector" /\ pc' = "connector2"
      /\ UNCHANGED <<hw, status, usable, listed, ci, res, ki, conn, out, refused>>
      /\ res \in Seq(Connectors) /\ ki \in Nat \ {0} /\ conn \in Statuses
  BY DEF CountModes, IInv, Types, world
<1>2. pc \in Probing /\ pc' \in Probing /\ pc \in Walking /\ pc' # "select"
  BY <1>1 DEF Walking, Probing
<1>3. ConnectorsLeft'
  BY <1>1, <1>2 DEF IInv, ConnectorsLeft
<1>4. QED
  BY <1>1, <1>2, <1>3, ProbeStep

LEMMA ReadConnectorStep == IInv /\ ReadConnector => IInv'
<1> SUFFICES ASSUME IInv, ReadConnector PROVE IInv'
  OBVIOUS
<1>1. /\ pc = "connector2"
      /\ UNCHANGED <<hw, status, usable, listed, ci, res, ki, out, refused>>
      /\ res \in Seq(Connectors) /\ ki \in Nat \ {0} /\ conn \in Statuses
  BY DEF ReadConnector, IInv, Types, world
<1>2. /\ \/ pc' = "connector" /\ conn' = conn
         \/ pc' = "select" /\ conn' = Now
  BY DEF ReadConnector
<1>3. pc \in Probing /\ pc' \in Probing /\ pc \in Walking /\ pc' \in Walking
  BY <1>1, <1>2 DEF Walking, Probing
<1>4. listed[ci] \in Cards /\ res[ki] \in Connectors /\ Now \in Statuses
  BY <1>3, AtCard, AtConnector
<1>5. <<listed[ci], res[ki]>> \in usable => Now = "connected"
  BY <1>4 DEF IInv, StillUsable, IsUsable, Now
<1>6. ConnectorsLeft'
  BY <1>1, <1>2, <1>3, <1>5 DEF IInv, ConnectorsLeft
<1>7. QED
  BY <1>1, <1>2, <1>3, <1>4, <1>6, ProbeStep

LEMMA ConnectorGoneStep == IInv /\ ConnectorGone => IInv'
<1> SUFFICES ASSUME IInv, ConnectorGone PROVE IInv'
  OBVIOUS
<1>1. /\ pc \in Probing /\ NextCard
      /\ UNCHANGED <<hw, status, usable, listed, res, ki, conn, out>>
      /\ res \in Seq(Connectors) /\ ki \in Nat \ {0} /\ conn \in Statuses
      /\ refused' = refused \union {<<listed[ci], "gone">>}
  BY DEF ConnectorGone, IInv, Types, world, query, Probing
<1>2. listed[ci] \in Lost' /\ refused \subseteq refused'
  <2>1. <<listed[ci], "gone">> \in refused'
    BY <1>1
  <2>2. <<listed[ci], "gone">>[1] = listed[ci]
    OBVIOUS
  <2>3. QED
    BY <1>1, <2>1, <2>2 DEF Lost
<1>3. QED
  BY <1>1, <1>2, NextCardStep

LEMMA CallFailsStep == IInv /\ CallFails => IInv'
<1> SUFFICES ASSUME IInv, CallFails PROVE IInv'
  OBVIOUS
<1>1. /\ pc \in Probing \union {"open"} /\ NextCard
      /\ UNCHANGED <<hw, status, usable, listed, res, ki, conn, out>>
      /\ res \in Seq(Connectors) /\ ki \in Nat \ {0} /\ conn \in Statuses
      /\ refused' = refused \union {<<listed[ci], "error">>}
  BY DEF CallFails, IInv, Types, world, query
<1>2. listed[ci] \in Lost' /\ refused \subseteq refused'
  <2>1. <<listed[ci], "error">> \in refused'
    BY <1>1
  <2>2. <<listed[ci], "error">>[1] = listed[ci]
    OBVIOUS
  <2>3. QED
    BY <1>1, <2>1, <2>2 DEF Lost
<1>3. QED
  BY <1>1, <1>2, NextCardStep

(* The connector at hand is passed over only if it is no such display: one *)
(* that is, was read as connected and has a CRTC.                          *)
LEMMA SelectOutputStep == IInv /\ SelectOutput => IInv'
<1> SUFFICES ASSUME IInv, SelectOutput PROVE IInv'
  OBVIOUS
<1> DEFINE c == listed[ci]
           k0 == res[ki]
           crtc == CrtcFor(hw[c], k0)
<1>1. /\ pc = "select"
      /\ UNCHANGED <<hw, status, usable, listed, res, conn, refused>>
      /\ res \in Seq(Connectors) /\ ki \in Nat \ {0} /\ conn \in Statuses
      /\ listed \in Seq(Cards) /\ ci \in Nat \ {0} /\ ci <= Len(listed)
      /\ ki <= Len(res) /\ out = NoOutput
  BY DEF SelectOutput, IInv, Types, ConnectorsLeft, Walking, Probing, world
<1>2. pc \in Probing /\ pc \in Walking
  BY <1>1 DEF Walking, Probing
<1>3. c \in Cards /\ hw[c] \in Hardware /\ k0 \in Connectors
  BY <1>2, AtCard, AtConnector
<1>4. PICK at : Embeds(at, res, hw[c].conns)
  BY <1>2 DEF IInv, ConnectorsLeft
<1>5. \A k \in Connectors : <<c, k>> \in usable => \E m \in ki .. Len(res) : res[m] = k
  BY <1>2 DEF IInv, ConnectorsLeft
<1>6. CASE conn = "connected" /\ crtc # None
  <2>1. /\ out' = [card |-> c, conn |-> k0, crtc |-> crtc]
        /\ pc' = "end" /\ UNCHANGED <<ci, ki>>
    BY <1>6 DEF SelectOutput
  <2>2. crtc \in Drivable(hw[c], k0)
    BY <1>3, <1>6, CrtcForDrives
  <2> HIDE DEF crtc, c, k0
  <2>3. /\ out' # NoOutput /\ out'.card = c
        /\ out'.conn = k0 /\ out'.crtc = crtc
    BY <1>6, <2>1 DEF NoOutput
  <2>4. Types'
    BY <1>1, <2>1 DEF IInv, Types, Probing
  <2>5. InOrder' /\ StillUsable'
    BY <1>1 DEF IInv, InOrder, StillUsable, IsUsable, Drivable
  <2>6. CardsPassed' /\ ConnectorsLeft'
    BY <2>1 DEF CardsPassed, ConnectorsLeft, Walking
  <2>7. OutputDrivable'
    BY <1>1, <1>6, <2>2, <2>3 DEF OutputDrivable, Drivable, Modes
  <2>8. StableDisplayFound'
    <3>1. SUFFICES ASSUME NEW ck \in usable, ck[1] \in ToSet(listed), ck[1] \notin Lost
                   PROVE  FoundBy(ck[1], ck[2])'
      BY <1>1 DEF StableDisplayFound, StableDisplayFoundUnless, Lost
    <3>2. PICK j \in DOMAIN listed : ck[1] = listed[j]
      BY <3>1 DEF ToSet
    <3>3. ck \in Cards \X Connectors
      BY DEF IInv, Types
    <3>4. <<listed[j], ck[2]>> \in usable /\ ck[2] \in Connectors
      BY <3>2, <3>3
    <3>5. ci <= j
      <4>1. j < ci => Passed(listed[j])
        BY <1>1 DEF IInv, CardsPassed
      <4>2. ~ (j < ci)
        BY <3>1, <3>2, <3>4, <4>1 DEF Passed
      <4>3. QED
        BY <1>1, <4>2
    <3>6. CASE ci < j
      <4>1. listed[ci] < listed[j]
        BY <1>1, <3>6 DEF IInv, InOrder
      <4>2. QED
        BY <2>3, <3>2, <4>1 DEF FoundBy, c
    <3>7. CASE j = ci
      <4>1. <<c, ck[2]>> \in usable
        BY <3>4, <3>7 DEF c
      <4>2. PICK m \in ki .. Len(res) : res[m] = ck[2]
        BY <1>5, <3>4, <4>1
      <4> DEFINE conns == hw[c].conns
      <4>3. /\ at[ki] \in 1 .. Len(conns) /\ at[m] \in 1 .. Len(conns)
            /\ at[ki] <= at[m]
            /\ conns[at[ki]] = k0 /\ conns[at[m]] = ck[2]
        <5>1. ki \in 1 .. Len(res) /\ m \in 1 .. Len(res) /\ (ki = m \/ ki < m)
          BY <1>1
        <5> HIDE DEF conns
        <5>2. QED
          BY <1>4, <4>2, <5>1 DEF Embeds, conns, k0
      <4>4. DOMAIN conns = 1 .. Len(conns)
        BY <1>3, HardwareAssumption
      <4>5. /\ hw' = hw /\ out'.card = c /\ out'.conn = k0 /\ out' # NoOutput
            /\ ck[1] = c
        BY <1>1, <2>3, <3>2, <3>7 DEF c
      <4>6. QED
        BY <4>3, <4>4, <4>5 DEF FoundBy
    <3>8. QED
      BY <1>1, <3>5, <3>6, <3>7
  <2>9. QED
    BY <2>4, <2>5, <2>6, <2>7, <2>8 DEF IInv
<1>7. CASE ~ (conn = "connected" /\ crtc # None)
  <2>1. NextConnector /\ UNCHANGED out
    BY <1>7 DEF SelectOutput
  <2>2. <<c, k0>> \notin usable
    <3>1. SUFFICES ASSUME <<c, k0>> \in usable PROVE FALSE
      OBVIOUS
    <3>2. conn = "connected" /\ Drivable(hw[c], k0) # {}
      BY <1>1, <1>2, <1>3, <3>1 DEF IInv, ConnectorsLeft, StillUsable, IsUsable
    <3>3. crtc # None
      BY <1>3, <3>2, CrtcForDrives
    <3>4. QED
      BY <1>7, <3>2, <3>3
  <2>3. \A k \in Connectors : <<c, k>> \in usable => \E m \in ki + 1 .. Len(res) : res[m] = k
    <3> SUFFICES ASSUME NEW k \in Connectors, <<c, k>> \in usable
                 PROVE  \E m \in ki + 1 .. Len(res) : res[m] = k
      OBVIOUS
    <3>1. PICK m \in ki .. Len(res) : res[m] = k
      BY <1>5
    <3>2. m # ki
      BY <2>2, <3>1
    <3>3. m \in ki + 1 .. Len(res)
      BY <1>1, <3>2
    <3>4. QED
      BY <3>1, <3>3
  <2>4. CASE ki < Len(res)
    <3>1. pc' = "connector" /\ ki' = ki + 1 /\ ci' = ci
      BY <2>1, <2>4 DEF NextConnector
    <3>2. pc' \in Probing /\ ki' \in Nat \ {0} /\ ki' <= Len(res)
      BY <1>1, <2>4, <3>1 DEF Probing
    <3>3. ConnectorsLeft'
      BY <1>1, <1>4, <2>3, <3>1, <3>2 DEF ConnectorsLeft, Embeds
    <3>4. QED
      BY <1>1, <1>2, <2>1, <3>1, <3>2, <3>3, ProbeStep
  <2>5. CASE ~ (ki < Len(res))
    <3>1. NextCard /\ ki' = ki + 1 /\ ki' \in Nat \ {0}
      BY <1>1, <2>1, <2>5 DEF NextConnector
    <3>2. \A k \in Connectors : <<c, k>> \notin usable
      BY <1>1, <2>3, <2>5
    <3>3. QED
      BY <1>1, <1>2, <2>1, <3>1, <3>2, NextCardStep
  <2>6. QED
    BY <2>4, <2>5
<1>8. QED
  BY <1>6, <1>7

(* A hotplug event takes its display from those that were usable all the   *)
(* time.                                                                   *)
LEMMA HotplugStep == IInv /\ Hotplug => IInv'
<1> SUFFICES ASSUME IInv, Hotplug PROVE IInv'
  OBVIOUS
<1>1. /\ pc # "end" /\ out = NoOutput
      /\ UNCHANGED <<pc, hw, listed, ci, res, ki, conn, out, refused>>
  BY DEF Hotplug, IInv, Types, query
<1>2. PICK c \in Cards : \E k \in ToSet(hw[c].conns) : \E s \in Statuses :
        /\ status' = [status EXCEPT ![c][k] = s]
        /\ usable' = usable \ {<<c, k>>}
  BY DEF Hotplug
<1>3. PICK k \in ToSet(hw[c].conns) : \E s \in Statuses :
        /\ status' = [status EXCEPT ![c][k] = s]
        /\ usable' = usable \ {<<c, k>>}
  BY <1>2
<1>4. PICK s \in Statuses : /\ status' = [status EXCEPT ![c][k] = s]
                            /\ usable' = usable \ {<<c, k>>}
  BY <1>3
<1>5. Types'
  <2>1. hw[c] \in Hardware
    BY DEF IInv, Types
  <2>2. k \in Connectors
    BY <2>1, HardwareAssumption DEF ToSet
  <2>3. status' \in [Cards -> [Connectors -> Statuses]]
    BY <1>4, <2>2 DEF IInv, Types
  <2>4. QED
    BY <1>1, <1>4, <2>3 DEF IInv, Types
<1>6. StillUsable'
  <2>1. SUFFICES ASSUME NEW d \in Cards, NEW m \in Connectors, <<d, m>> \in usable'
                 PROVE  IsUsable(d, m)'
    BY DEF StillUsable
  <2>2. IsUsable(d, m) /\ (d # c \/ m # k)
    BY <1>4, <2>1 DEF IInv, StillUsable
  <2>3. status'[d][m] = status[d][m]
    BY <1>4, <2>2 DEF IInv, Types
  <2>4. QED
    BY <1>1, <2>2, <2>3 DEF IsUsable, Drivable
<1>7. InOrder' /\ CardsPassed'
  BY <1>1, <1>4 DEF IInv, InOrder, CardsPassed, Passed, Lost
<1>8. ConnectorsLeft'
  BY <1>1, <1>4 DEF IInv, ConnectorsLeft
<1>9. StableDisplayFound' /\ OutputDrivable'
  BY <1>1 DEF StableDisplayFound, StableDisplayFoundUnless, OutputDrivable
<1>10. QED
  BY <1>5, <1>6, <1>7, <1>8, <1>9 DEF IInv

LEMMA StutterStep == IInv /\ UNCHANGED vars => IInv'
BY DEF IInv, vars, world, query, Types, InOrder, StillUsable, IsUsable, Drivable, CardsPassed,
    Passed, Lost, ConnectorsLeft, StableDisplayFound, StableDisplayFoundUnless, FoundBy,
    OutputDrivable

LEMMA InvariantHolds == Spec => []IInv
<1>1. IInv /\ [Next]_vars => IInv'
  BY ListCardsStep, ListFailsStep, OpenCardStep, CountResourcesStep, ReadResourcesStep, CountModesStep,
     ReadConnectorStep, ConnectorGoneStep, SelectOutputStep, CallFailsStep, HotplugStep,
     StutterStep DEF Next, Search, Ended
<1>2. QED
  BY InitInv, <1>1, PTL DEF Spec

-----------------------------------------------------------------------------
(* A display that was usable from the first call of find to the last is    *)
(* found, or one that comes before it, whatever is plugged in between,     *)
(* unless its card answered a call with an error.                          *)
THEOREM StableDisplay == Spec => []StableDisplayFound
<1>1. IInv => StableDisplayFound
  BY DEF IInv
<1>2. QED
  BY InvariantHolds, <1>1, PTL

(* The CRTC of the output can drive its connector, which had modes.        *)
THEOREM Drivability == Spec => []OutputDrivable
<1>1. IInv => OutputDrivable
  BY DEF IInv
<1>2. QED
  BY InvariantHolds, <1>1, PTL

=============================================================================
