------------------------- MODULE InputRoutingProofs -------------------------
(***************************************************************************)
(* What holds of the routing of samples for any number of sessions,        *)
(* players, viewers, ids and samples, however the ids collide; and what    *)
(* the ids of running sessions give in addition, as long as the counter of *)
(* the hub has not come round to ids in use.                               *)
(***************************************************************************)
EXTENDS InputRouting, FiniteSetTheorems, TLAPS

-----------------------------------------------------------------------------
(* Lemmas about the operators of the model. *)

\* Narrowing a number yields a client id.
LEMMA WrapType ==
    ASSUME NEW n \in Int
    PROVE  Wrap(n) \in ClientIds
BY RoutingAssumption DEF Wrap, ClientIds, RoutingAssumption

\* The ids that a late viewer may get are client ids.
LEMMA IdsAfterType ==
    ASSUME NEW s \in Sessions, \A c \in Plan(s) : id[c] \in ClientIds
    PROVE  IdsAfter(s) \subseteq ClientIds
<1>1. 1 \in ClientIds
    BY RoutingAssumption DEF RoutingAssumption, ClientIds
<1>2. \A c \in Plan(s) : Wrap(id[c] + 1) \in ClientIds
    BY WrapType DEF ClientIds
<1> QED  BY <1>1, <1>2 DEF IdsAfter

-----------------------------------------------------------------------------
(* The inductive invariant. *)

\* A client in a plan was given an id: it names the seat that a reconnection
\* registers again.
IdKnown == \A c \in Clients : session[c] # Nobody => id[c] \in ClientIds

\* No pad shows a sample newer than the last one its router has accounted for.
Timed == \A s \in Sessions, i \in ClientIds : pad[s][i].time <= last[s][i]

TypeInv == TypeOK /\ IdKnown
IInv == TypeInv /\ RoutesLive /\ Timed

\* A member of a list is found at some place of it.
LEMMA PlaceInList ==
    ASSUME NEW S, NEW ps \in SetToSeqs(S), NEW c \in ToSet(ps)
    PROVE  (CHOOSE k \in DOMAIN ps : ps[k] = c) \in DOMAIN ps
BY DEF ToSet

\* The initial state has the types.
LEMMA InitInv == Init => IInv
<1> SUFFICES ASSUME Init PROVE IInv
    OBVIOUS
<1> USE RoutingAssumption DEF RoutingAssumption
<1>1. TypeOK
    BY DEF Init, TypeOK, ClientIds, Pads, Neutral, Receiving, Datagrams
<1>2. IdKnown /\ RoutesLive
    BY DEF Init, IdKnown, RoutesLive
<1>3. Timed
    BY DEF Init, Timed, Neutral
<1> QED  BY <1>1, <1>2, <1>3 DEF IInv, TypeInv

\* The start of a session keeps the types: whatever the hub and the gather hand
\* out are client ids.
LEMMA StartType ==
    ASSUME TypeInv, NEW s \in Sessions, NEW S \in SUBSET Players,
           NEW ps \in SetToSeqs(S), Start(s, ps)
    PROVE  TypeInv'
<1> USE RoutingAssumption DEF RoutingAssumption
<1> DEFINE number == [k \in DOMAIN ps |-> Wrap(nextId + k - 1)]
           at(c) == CHOOSE k \in DOMAIN ps : ps[k] = c
<1>1. DOMAIN ps \subseteq Nat /\ nextId \in Nat
    <2>1. DOMAIN ps = 1 .. Cardinality(S)
        BY DEF SetToSeqs
    <2>2. IsFiniteSet(S)
        BY FS_Subset DEF Clients
    <2>3. Cardinality(S) \in Nat
        BY <2>2, FS_CardinalityType
    <2> QED  BY <2>1, <2>3 DEF TypeInv, TypeOK, ClientIds
<1>2. \A k \in DOMAIN ps : number[k] \in ClientIds
    BY <1>1, WrapType
<1>3. \A c \in ToSet(ps) : number[at(c)] \in ClientIds
    <2>1. TAKE c \in ToSet(ps)
    <2>2. at(c) \in DOMAIN ps
        BY PlaceInList
    <2> QED  BY <1>2, <2>2
<1>4. id' = [c \in Clients |-> IF c \in ToSet(ps) THEN number[at(c)] ELSE id[c]]
    BY DEF Start
<1> HIDE DEF number, at
<1>5. id' \in [Clients -> ClientIds \cup {Nobody}]
    BY <1>3, <1>4 DEF TypeInv, TypeOK
<1>6. nextId' \in ClientIds
    BY <1>1, WrapType DEF Start, FollowingId
<1>7. router' \in [Sessions -> {"none", "live", "unrouted", "gone"}]
    BY DEF Start, TypeInv, TypeOK
<1>8. /\ session' = [c \in Clients |-> IF c \in ToSet(ps) THEN s ELSE session[c]]
      /\ link' = [c \in Clients |-> IF c \in ToSet(ps) THEN "up" ELSE link[c]]
    BY DEF Start
<1>9. /\ session' \in [Clients -> Sessions \cup {Nobody}]
      /\ link' \in [Clients -> {"out", "up", "lost"}]
      /\ \A c \in Clients : link'[c] = "out" <=> session'[c] = Nobody
    BY <1>8 DEF TypeInv, TypeOK
<1>10. route' \in [ClientIds -> Sessions \cup {Nobody}]
    BY DEF Start, TypeInv, TypeOK
<1>11. TypeOK'
    BY <1>5, <1>6, <1>7, <1>9, <1>10 DEF Start, TypeInv, TypeOK
<1>12. IdKnown'
    BY <1>3, <1>4, <1>8 DEF TypeInv, IdKnown
<1> QED  BY <1>11, <1>12 DEF TypeInv

\* Joins, losses and departures of clients keep the types.
LEMMA ClientType ==
    ASSUME TypeInv,
           \/ \E p \in Players : Lost(p) \/ Reconnect(p)
           \/ \E v \in Viewers : ViewerLeave(v) \/ \E s \in Sessions : ViewerJoin(v, s)
    PROVE  TypeInv'
<1> USE RoutingAssumption DEF RoutingAssumption, Clients
<1>1. ASSUME NEW p \in Players, Lost(p) PROVE TypeInv'
    <2> DEFINE s == session[p]
               i == id[p]
               t == IF last[s][i] = 0 THEN 0 ELSE last[s][i] + 1
    <2>1. s \in Sessions /\ i \in ClientIds
        BY <1>1 DEF Lost, TypeInv, TypeOK, IdKnown
    <2>2. t \in Nat
        BY <2>1 DEF TypeInv, TypeOK
    <2>3. /\ last' = [last EXCEPT ![s][i] = t]
          /\ pad' = [pad EXCEPT ![s][i] = Neutral(t)]
        BY <1>1 DEF Lost
    <2>4. Neutral(t) \in Pads
        BY <2>2 DEF Neutral, Pads
    <2> HIDE DEF s, i, t
    <2>5. last' \in [Sessions -> [ClientIds -> Nat]]
        BY <2>1, <2>2, <2>3 DEF TypeInv, TypeOK
    <2>6. pad' \in [Sessions -> [ClientIds -> Pads]]
        BY <2>1, <2>3, <2>4 DEF TypeInv, TypeOK
    <2>7. /\ link' \in [Clients -> {"out", "up", "lost"}]
          /\ \A c \in Clients : link'[c] = "out" <=> session[c] = Nobody
        BY <1>1 DEF Lost, TypeInv, TypeOK
    <2>8. TypeOK'
        BY <1>1, <2>5, <2>6, <2>7 DEF Lost, TypeInv, TypeOK
    <2> QED  BY <1>1, <2>8 DEF Lost, TypeInv, IdKnown
<1>2. ASSUME NEW p \in Players, Reconnect(p) PROVE TypeInv'
    <2>1. session[p] \in Sessions
        BY <1>2 DEF Reconnect, TypeInv, TypeOK
    <2>2. route' \in [ClientIds -> Sessions \cup {Nobody}]
        BY <1>2, <2>1 DEF Reconnect, TypeInv, TypeOK
    <2>3. sent' \in [Players -> 0 .. MaxSamples]
        <3>1. sent' = sent \/ sent' = [sent EXCEPT ![p] = 0]
            BY <1>2 DEF Reconnect
        <3>2. sent \in [Players -> 0 .. MaxSamples] /\ 0 \in 0 .. MaxSamples
            BY DEF TypeInv, TypeOK
        <3> QED  BY <3>1, <3>2
    <2>4. /\ link' \in [Clients -> {"out", "up", "lost"}]
          /\ \A c \in Clients : link'[c] = "out" <=> session[c] = Nobody
        BY <1>2 DEF Reconnect, TypeInv, TypeOK
    <2>5. TypeOK'
        BY <1>2, <2>2, <2>3, <2>4 DEF Reconnect, TypeInv, TypeOK
    <2> QED  BY <1>2, <2>5 DEF Reconnect, TypeInv, IdKnown
<1>3. ASSUME NEW v \in Viewers, ViewerLeave(v) PROVE TypeInv'
    <2>1. /\ session' = [session EXCEPT ![v] = Nobody]
          /\ link' = [link EXCEPT ![v] = "out"]
        BY <1>3 DEF ViewerLeave
    <2>2. /\ session' \in [Clients -> Sessions \cup {Nobody}]
          /\ link' \in [Clients -> {"out", "up", "lost"}]
          /\ \A c \in Clients : link'[c] = "out" <=> session'[c] = Nobody
        BY <2>1 DEF TypeInv, TypeOK
    <2>3. TypeOK'
        BY <1>3, <2>2 DEF ViewerLeave, TypeInv, TypeOK
    <2> QED  BY <1>3, <2>1, <2>3 DEF ViewerLeave, TypeInv, TypeOK, IdKnown
<1>4. ASSUME NEW v \in Viewers, NEW s \in Sessions, ViewerJoin(v, s) PROVE TypeInv'
    <2>1. \A c \in Plan(s) : id[c] \in ClientIds
        BY DEF Plan, TypeInv, IdKnown
    <2>2. PICK i \in IdsAfter(s) : /\ id' = [id EXCEPT ![v] = i]
                                   /\ route' = [route EXCEPT ![i] = s]
        BY <1>4 DEF ViewerJoin
    <2>3. /\ i \in ClientIds
          /\ session' = [session EXCEPT ![v] = s]
          /\ link' = [link EXCEPT ![v] = "up"]
        BY <1>4, <2>1, IdsAfterType DEF ViewerJoin
    <2>4. /\ session' \in [Clients -> Sessions \cup {Nobody}]
          /\ link' \in [Clients -> {"out", "up", "lost"}]
          /\ \A c \in Clients : link'[c] = "out" <=> session'[c] = Nobody
        BY <2>3 DEF TypeInv, TypeOK
    <2>5. /\ id' \in [Clients -> ClientIds \cup {Nobody}]
          /\ route' \in [ClientIds -> Sessions \cup {Nobody}]
        BY <2>2, <2>3 DEF TypeInv, TypeOK
    <2>6. TypeOK'
        BY <1>4, <2>4, <2>5 DEF ViewerJoin, TypeInv, TypeOK
    <2> QED  BY <2>2, <2>3, <2>6 DEF TypeInv, TypeOK, IdKnown
<1> QED  BY <1>1, <1>2, <1>3, <1>4

\* The end of a session keeps the types.
LEMMA EndType ==
    ASSUME TypeInv, NEW s \in Sessions, Unregister(s) \/ Destroy(s)
    PROVE  TypeInv'
<1> USE RoutingAssumption DEF RoutingAssumption
<1>1. CASE Unregister(s)
    <2>1. route' \in [ClientIds -> Sessions \cup {Nobody}]
        BY <1>1 DEF Unregister, UnregisterAllFor, TypeInv, TypeOK
    <2>2. TypeOK'
        BY <1>1, <2>1 DEF Unregister, TypeInv, TypeOK
    <2> QED  BY <1>1, <2>2 DEF Unregister, TypeInv, IdKnown
<1>2. CASE Destroy(s)
    <2>1. Neutral(0) \in Pads
        BY DEF Neutral, Pads
    <2>2. /\ last' \in [Sessions -> [ClientIds -> Nat]]
          /\ pad' \in [Sessions -> [ClientIds -> Pads]]
        BY <1>2, <2>1 DEF Destroy, TypeInv, TypeOK
    <2>3. /\ session' = [c \in Clients |-> IF session[c] = s THEN Nobody ELSE session[c]]
          /\ link' = [c \in Clients |-> IF session[c] = s THEN "out" ELSE link[c]]
        BY <1>2 DEF Destroy
    <2>4. /\ session' \in [Clients -> Sessions \cup {Nobody}]
          /\ link' \in [Clients -> {"out", "up", "lost"}]
          /\ \A c \in Clients : link'[c] = "out" <=> session'[c] = Nobody
        BY <2>3 DEF TypeInv, TypeOK
    <2>5. TypeOK'
        BY <1>2, <2>2, <2>4 DEF Destroy, TypeInv, TypeOK
    <2> QED  BY <1>2, <2>3, <2>5 DEF Destroy, TypeInv, IdKnown
<1> QED  BY <1>1, <1>2

\* Samples taken, lost, looked up and applied keep the types.
LEMMA DatagramType ==
    ASSUME TypeInv,
           \/ \E p \in Players, held \in Presses \cup {Rest} : Send(p, held)
           \/ Network \/ Apply \/ ApplyToFreed
    PROVE  TypeInv'
<1> USE RoutingAssumption DEF RoutingAssumption
<1>1. ASSUME NEW p \in Players, NEW held \in Presses \cup {Rest}, Send(p, held)
      PROVE  TypeInv'
    <2>1. id[p] \in ClientIds /\ sent[p] \in Nat
        BY <1>1 DEF Send, TypeInv, TypeOK, Clients
    <2>2. \A k \in 1 .. Copies : Copies * sent[p] + k \in Nat
        BY <2>1
    <2>3. net' \subseteq Datagrams
        BY <1>1, <2>1, <2>2 DEF Send, Datagrams, TypeInv, TypeOK
    <2>4. sent' \in [Players -> 0 .. MaxSamples]
        BY <1>1 DEF Send, TypeInv, TypeOK
    <2>5. TypeOK'
        BY <1>1, <2>3, <2>4 DEF Send, TypeInv, TypeOK
    <2> QED  BY <1>1, <2>5 DEF Send, TypeInv, IdKnown
<1>2. ASSUME NEW d \in net, Lose(d) PROVE TypeInv'
    <2>1. TypeOK'
        BY <1>2 DEF Lose, TypeInv, TypeOK
    <2> QED  BY <1>2, <2>1 DEF Lose, TypeInv, IdKnown
<1>3. ASSUME NEW d \in net, Lookup(d) PROVE TypeInv'
    <2>1. d \in Datagrams /\ d.id \in ClientIds
        BY DEF TypeInv, TypeOK, Datagrams
    <2>2. net' \subseteq Datagrams
        BY <1>3 DEF Lookup, TypeInv, TypeOK
    <2>3. /\ udp'.pc \in {"idle", "routing", "crashed"}
          /\ udp'.pc = "routing" => udp'.router \in Sessions /\ udp'.packet \in Datagrams
        BY <1>3, <2>1 DEF Lookup, TypeInv, TypeOK
    <2>4. TypeOK'
        BY <1>3, <2>2, <2>3 DEF Lookup, TypeInv, TypeOK
    <2> QED  BY <1>3, <2>4 DEF Lookup, TypeInv, IdKnown
<1>4. CASE Apply
    <2> DEFINE s == udp.router
               d == udp.packet
    <2>1. s \in Sessions /\ d \in Datagrams
        BY <1>4 DEF Apply, TypeInv, TypeOK
    <2>2. d.id \in ClientIds /\ d.time \in Nat
        BY <2>1 DEF Datagrams
    <2>3. [by |-> d.from, time |-> d.time, held |-> d.held] \in Pads
        BY <2>1 DEF Datagrams, Pads
    <2>4. CASE UNCHANGED <<last, pad>>
        <3>1. TypeOK'
            BY <1>4, <2>4 DEF Apply, Receiving, TypeInv, TypeOK
        <3> QED  BY <1>4, <3>1 DEF Apply, TypeInv, IdKnown
    <2>5. CASE /\ last' = [last EXCEPT ![s][d.id] = d.time]
               /\ pad' = [pad EXCEPT ![s][d.id] =
                      [by |-> d.from, time |-> d.time, held |-> d.held]]
        <3>1. last' \in [Sessions -> [ClientIds -> Nat]]
            BY <2>1, <2>2, <2>5 DEF TypeInv, TypeOK
        <3>2. pad' \in [Sessions -> [ClientIds -> Pads]]
            BY <2>1, <2>2, <2>3, <2>5 DEF TypeInv, TypeOK
        <3>3. TypeOK'
            BY <1>4, <3>1, <3>2 DEF Apply, Receiving, TypeInv, TypeOK
        <3> QED  BY <1>4, <3>3 DEF Apply, TypeInv, IdKnown
    <2> QED  BY <1>4, <2>4, <2>5 DEF Apply
<1>5. CASE ApplyToFreed
    <2>1. TypeOK'
        BY <1>5 DEF ApplyToFreed, Receiving, TypeInv, TypeOK
    <2> QED  BY <1>5, <2>1 DEF ApplyToFreed, TypeInv, IdKnown
<1> QED  BY <1>1, <1>2, <1>3, <1>4, <1>5 DEF Network

\* Every step keeps the types.
LEMMA StepType ==
    ASSUME TypeInv, [Next]_vars
    PROVE  TypeInv'
<1>1. ASSUME NEW s \in Sessions, SessionThread(s) PROVE TypeInv'
    BY <1>1, StartType, ClientType, EndType DEF SessionThread
<1>2. CASE ClientEvents
    BY <1>2, ClientType, DatagramType DEF ClientEvents
<1>3. CASE Network \/ Apply \/ ApplyToFreed
    BY <1>3, DatagramType
<1>4. CASE UNCHANGED vars
    BY <1>4 DEF vars, TypeInv, TypeOK, IdKnown
<1> QED  BY <1>1, <1>2, <1>3, <1>4 DEF Next

-----------------------------------------------------------------------------
(* The demux. *)

\* Every step keeps the routes of the demux on registered routers.
LEMMA StepRoutes ==
    ASSUME TypeInv, RoutesLive, [Next]_vars
    PROVE  RoutesLive'
<1> USE RoutingAssumption DEF RoutingAssumption
<1>1. ASSUME NEW s \in Sessions, NEW S \in SUBSET Players,
             NEW ps \in SetToSeqs(S), Start(s, ps)
      PROVE  RoutesLive'
    <2>1. router' = [router EXCEPT ![s] = "live"] /\ router[s] = "none"
        BY <1>1 DEF Start
    <2>2. \A i \in ClientIds : route'[i] \in {s, route[i]}
        BY <1>1 DEF Start
    <2> QED  BY <2>1, <2>2 DEF RoutesLive, TypeInv, TypeOK
<1>2. ASSUME NEW p \in Players, Lost(p) PROVE RoutesLive'
    BY <1>2 DEF Lost, RoutesLive
<1>3. ASSUME NEW p \in Players, Reconnect(p) PROVE RoutesLive'
    BY <1>3 DEF Reconnect, RoutesLive, TypeInv, TypeOK
<1>4. ASSUME NEW v \in Viewers, NEW s \in Sessions, ViewerJoin(v, s) PROVE RoutesLive'
    BY <1>4 DEF ViewerJoin, RoutesLive, TypeInv, TypeOK
<1>5. ASSUME NEW v \in Viewers, ViewerLeave(v) PROVE RoutesLive'
    BY <1>5 DEF ViewerLeave, RoutesLive
<1>6. ASSUME NEW s \in Sessions, Unregister(s) PROVE RoutesLive'
    <2>1. router' = [router EXCEPT ![s] = "unrouted"]
        BY <1>6 DEF Unregister
    <2>2. \A i \in ClientIds :
              route'[i] # Nobody => route'[i] = route[i] /\ route[i] # s
        BY <1>6 DEF Unregister, UnregisterAllFor
    <2> QED  BY <2>1, <2>2 DEF RoutesLive, TypeInv, TypeOK
<1>7. ASSUME NEW s \in Sessions, Destroy(s) PROVE RoutesLive'
    BY <1>7 DEF Destroy, RoutesLive, TypeInv, TypeOK
<1>8. ASSUME UNCHANGED <<router, route>> PROVE RoutesLive'
    BY <1>8 DEF RoutesLive
<1>9. /\ \A p \in Players : \A held : Send(p, held) => UNCHANGED <<router, route>>
      /\ Network \/ Apply \/ ApplyToFreed \/ UNCHANGED vars => UNCHANGED <<router, route>>
    BY DEF Send, Network, Lose, Lookup, Apply, ApplyToFreed, vars
<1> QED
    BY <1>1, <1>2, <1>3, <1>4, <1>5, <1>6, <1>7, <1>8, <1>9
    DEF Next, SessionThread, ClientEvents

-----------------------------------------------------------------------------
(* The times of the samples. *)

\* Only these steps touch a pad or its last accepted time.
LEMMA WhoMovesPads ==
    ASSUME [Next]_vars
    PROVE  \/ \E p \in Players : Lost(p)
           \/ \E s \in Sessions : Destroy(s)
           \/ Apply
           \/ UNCHANGED <<last, pad>>
BY DEF Next, SessionThread, ClientEvents, Network, Start, Reconnect, ViewerJoin,
       ViewerLeave, Unregister, Send, Lose, Lookup, ApplyToFreed, vars

\* A step keeps every pad behind the last accepted time, and turns no pad back
\* while its router lives.
LEMMA StepTimes ==
    ASSUME TypeInv, Timed, [Next]_vars
    PROVE  /\ Timed'
           /\ \A s \in Sessions, i \in ClientIds :
                  router'[s] = "live" => pad'[s][i].time >= pad[s][i].time
<1>1. \A s \in Sessions, i \in ClientIds : pad[s][i].time \in Nat /\ last[s][i] \in Nat
    BY DEF TypeInv, TypeOK, Pads
<1>2. ASSUME NEW p \in Players, Lost(p)
      PROVE  \A s \in Sessions, i \in ClientIds :
                 /\ pad'[s][i].time <= last'[s][i]
                 /\ pad'[s][i].time >= pad[s][i].time
    <2> DEFINE t == IF last[session[p]][id[p]] = 0 THEN 0 ELSE last[session[p]][id[p]] + 1
    <2>1. session[p] \in Sessions /\ id[p] \in ClientIds
        BY <1>2, RoutingAssumption DEF Lost, TypeInv, TypeOK, IdKnown, Clients
    <2>2. pad[session[p]][id[p]].time <= t
        BY <1>1, <2>1 DEF Timed
    <2>3. /\ last' = [last EXCEPT ![session[p]][id[p]] = t]
          /\ pad' = [pad EXCEPT ![session[p]][id[p]] = Neutral(t)]
        BY <1>2 DEF Lost
    <2>4. Neutral(t).time = t /\ t \in Nat
        BY <1>1, <2>1 DEF Neutral
    <2> HIDE DEF t
    <2>5. TAKE s \in Sessions, i \in ClientIds
    <2>6. CASE s = session[p] /\ i = id[p]
        <3>1. pad'[s][i] = Neutral(t) /\ last'[s][i] = t
            BY <2>1, <2>3, <2>6 DEF TypeInv, TypeOK
        <3> QED  BY <1>1, <2>2, <2>4, <2>6, <3>1
    <2>7. CASE ~(s = session[p] /\ i = id[p])
        <3>1. pad'[s][i] = pad[s][i] /\ last'[s][i] = last[s][i]
            BY <2>1, <2>3, <2>7 DEF TypeInv, TypeOK
        <3> QED  BY <1>1, <3>1 DEF Timed
    <2> QED  BY <2>6, <2>7
<1>3. ASSUME NEW r \in Sessions, Destroy(r)
      PROVE  \A s \in Sessions, i \in ClientIds :
                 /\ pad'[s][i].time <= last'[s][i]
                 /\ router'[s] = "live" => pad'[s][i].time >= pad[s][i].time
    <2>1. TAKE s \in Sessions, i \in ClientIds
    <2>2. CASE s = r
        <3>1. pad'[s][i].time = 0 /\ last'[s][i] = 0 /\ router'[s] = "gone"
            BY <1>3, <2>2 DEF Destroy, Neutral, TypeInv, TypeOK
        <3> QED  BY <3>1
    <2>3. CASE s # r
        <3>1. pad'[s][i] = pad[s][i] /\ last'[s][i] = last[s][i]
            BY <1>3, <2>3 DEF Destroy, TypeInv, TypeOK
        <3> QED  BY <1>1, <3>1 DEF Timed
    <2> QED  BY <2>2, <2>3
<1>4. CASE UNCHANGED <<last, pad>>
    BY <1>1, <1>4 DEF Timed
<1>5. CASE Apply /\ ~UNCHANGED <<last, pad>>
    <2> DEFINE r == udp.router
               d == udp.packet
               sample == [by |-> d.from, time |-> d.time, held |-> d.held]
    <2>1. r \in Sessions /\ d.id \in ClientIds /\ d.time \in Nat
        BY <1>5 DEF Apply, TypeInv, TypeOK, Datagrams
    <2>2. /\ last' = [last EXCEPT ![r][d.id] = d.time]
          /\ pad' = [pad EXCEPT ![r][d.id] = sample]
          /\ d.time >= last[r][d.id]
        BY <1>5 DEF Apply, InOrder
    <2>3. sample.time = d.time
        OBVIOUS
    <2> HIDE DEF r, d, sample
    <2>4. ASSUME NEW s \in Sessions, NEW i \in ClientIds
          PROVE  pad'[s][i].time <= last'[s][i] /\ pad'[s][i].time >= pad[s][i].time
        <3>1. CASE s = r /\ i = d.id
            <4>1. pad'[s][i] = sample /\ last'[s][i] = d.time
                BY <2>1, <2>2, <3>1 DEF TypeInv, TypeOK
            <4> QED  BY <1>1, <2>1, <2>2, <2>3, <3>1, <4>1 DEF Timed
        <3>2. CASE ~(s = r /\ i = d.id)
            <4>1. pad'[s][i] = pad[s][i] /\ last'[s][i] = last[s][i]
                BY <2>1, <2>2, <3>2 DEF TypeInv, TypeOK
            <4> QED  BY <1>1, <4>1 DEF Timed
        <3> QED  BY <3>1, <3>2
    <2> QED  BY <2>4 DEF Timed
<1> QED  BY <1>2, <1>3, <1>4, <1>5, WhoMovesPads DEF Timed

-----------------------------------------------------------------------------
(* The ids of running sessions.  The hub counts its sessions with one byte,  *)
(* so what follows is about a host that does not run more sessions than      *)
(* there are ids, never gathers more clients than that, and keeps            *)
(* multiplayer to itself, if it has any.                                     *)

FewSessions == Cardinality(Sessions) <= IdLimit
OrderlyGathers == MaxClients <= IdLimit /\ (GateHolds \/ MaxClients = 1)

\* How many sessions have been started, the ids that as many singleplayer
\* sessions take, and the id that comes next.
Started == {s \in Sessions : router[s] # "none"}
UsedBy(n) == IF n < IdLimit THEN 1 .. n ELSE ClientIds
NextBy(n) == IF n = IdLimit THEN 1 ELSE IF n + 1 = IdLimit THEN 0 ELSE n + 1
Used == UsedBy(Cardinality(Started))

\* The counter of the hub has made one step for each session.
Counted == nextId = NextBy(Cardinality(Started))

\* A client is in the plan of a session that runs.
PlansRun == \A c \in Clients, s \in Sessions : session[c] = s => Running(s)

\* Players in a plan have ids of their own.
IdsApart ==
    \A p, q \in Players :
        session[p] # Nobody /\ session[q] # Nobody /\ id[p] = id[q] => p = q

\* The player of a singleplayer session has one of the ids used so far.
SingleUsed ==
    \A p \in Players, s \in Sessions : session[p] = s /\ ~Multiplayer(s) => id[p] \in Used

\* Multiplayer runs alone, and only on a host that gathers.
Alone ==
    \A s, t \in Sessions :
        Running(s) /\ Running(t) /\ Multiplayer(s) => s = t /\ MaxClients # 1

IdsInv == Counted /\ PlansRun /\ IdsApart /\ SingleUsed /\ Alone

\* Narrowing leaves an id alone and brings what is less than twice too far back.
LEMMA WrapIs ==
    ASSUME NEW n \in 0 .. IdLimit + IdLimit - 1
    PROVE  Wrap(n) = IF n < IdLimit THEN n ELSE n - IdLimit
<1> USE RoutingAssumption DEF RoutingAssumption
<1>1. CASE n < IdLimit
    BY <1>1 DEF Wrap
<1>2. CASE n >= IdLimit
    <2>1. n - IdLimit \in 0 .. IdLimit - 1
        BY <1>2
    <2>2. (n - IdLimit) % IdLimit = n - IdLimit
        BY <2>1
    <2>3. n % IdLimit = (n - IdLimit) % IdLimit
        BY <1>2
    <2> QED  BY <1>2, <2>2, <2>3 DEF Wrap
<1> QED  BY <1>1, <1>2

\* The next id of the hub is a new one, until all have been used.
LEMMA NextIsNew ==
    ASSUME NEW n \in 0 .. IdLimit - 1
    PROVE  /\ NextBy(n) \in ClientIds
           /\ NextBy(n) \notin UsedBy(n)
           /\ NextBy(n) \in UsedBy(n + 1)
           /\ UsedBy(n) \subseteq UsedBy(n + 1)
           /\ Wrap(NextBy(n) + 1) = NextBy(n + 1)
           /\ Wrap(NextBy(n)) = NextBy(n)
<1> USE RoutingAssumption DEF RoutingAssumption
<1>1. NextBy(n) \in ClientIds /\ NextBy(n) \in 0 .. IdLimit + IdLimit - 2
    BY DEF NextBy, ClientIds
<1>2. NextBy(n) \notin UsedBy(n) /\ NextBy(n) \in UsedBy(n + 1)
    BY DEF NextBy, UsedBy, ClientIds
<1>3. UsedBy(n) \subseteq UsedBy(n + 1)
    BY DEF UsedBy, ClientIds
<1>4. Wrap(NextBy(n)) = NextBy(n)
    BY <1>1, WrapIs DEF ClientIds
<1>5. Wrap(NextBy(n) + 1) = NextBy(n + 1)
    <2> DEFINE m == NextBy(n) + 1
    <2>1. m \in 0 .. IdLimit + IdLimit - 1
        BY <1>1
    <2>2. m = IF n + 1 = IdLimit THEN 1 ELSE n + 2
        BY DEF NextBy
    <2> HIDE DEF m
    <2>3. Wrap(m) = IF m < IdLimit THEN m ELSE m - IdLimit
        BY <2>1, WrapIs
    <2>4. Wrap(m) = NextBy(n + 1)
        BY <2>2, <2>3 DEF NextBy
    <2> QED  BY <2>4 DEF m
<1> QED  BY <1>1, <1>2, <1>3, <1>4, <1>5

\* Numbers that follow each other for less than a round are different ids.
LEMMA WrapApart ==
    ASSUME NEW i \in ClientIds, NEW k \in 1 .. IdLimit, NEW l \in 1 .. IdLimit,
           Wrap(i + k - 1) = Wrap(i + l - 1)
    PROVE  k = l
<1> USE RoutingAssumption DEF RoutingAssumption, ClientIds
<1>1. i + k - 1 \in 0 .. IdLimit + IdLimit - 1 /\ i + l - 1 \in 0 .. IdLimit + IdLimit - 1
    OBVIOUS
<1>2. /\ Wrap(i + k - 1) = IF i + k - 1 < IdLimit THEN i + k - 1 ELSE i + k - 1 - IdLimit
      /\ Wrap(i + l - 1) = IF i + l - 1 < IdLimit THEN i + l - 1 ELSE i + l - 1 - IdLimit
    BY <1>1, WrapIs
<1> QED  BY <1>2

\* The lists of a set are its members in some order, each once.
LEMMA ListShape ==
    ASSUME NEW S, IsFiniteSet(S), NEW ps \in SetToSeqs(S)
    PROVE  /\ Cardinality(S) \in Nat
           /\ DOMAIN ps = 1 .. Cardinality(S) /\ Len(ps) = Cardinality(S)
           /\ \A k \in DOMAIN ps : ps[k] \in S
           /\ \A k, l \in DOMAIN ps : ps[k] = ps[l] => k = l
           /\ ToSet(ps) \subseteq S
           /\ \A k \in DOMAIN ps : ps[k] \in ToSet(ps)
<1>1. Cardinality(S) \in Nat
    BY FS_CardinalityType
<1>2. /\ ps \in [1 .. Cardinality(S) -> S]
      /\ \A i, j \in 1 .. Cardinality(S) : i # j => ps[i] # ps[j]
    BY DEF SetToSeqs
<1>3. ps \in Seq(S) /\ Len(ps) = Cardinality(S)
    BY <1>1, <1>2
<1>4. \A k, l \in DOMAIN ps : ps[k] = ps[l] => k = l
    BY <1>2
<1> QED  BY <1>1, <1>2, <1>3, <1>4 DEF ToSet

\* What the start of a session does: each player gets the number of its place in
\* the list, and the demux leads that number to the session.
LEMMA StartIs ==
    ASSUME TypeInv, NEW s \in Sessions, NEW S \in SUBSET Players, S # {},
           NEW ps \in SetToSeqs(S), Start(s, ps)
    PROVE  /\ Len(ps) = Cardinality(S) /\ Len(ps) \in Nat \ {0} /\ DOMAIN ps = 1 .. Len(ps)
           /\ \A k \in DOMAIN ps : ps[k] \in ToSet(ps)
           /\ \A k, l \in DOMAIN ps : ps[k] = ps[l] => k = l
           /\ ToSet(ps) \subseteq Players
           /\ \A c \in ToSet(ps) :
                 /\ session[c] = Nobody /\ session'[c] = s
                 /\ \E k \in DOMAIN ps : ps[k] = c /\ id'[c] = Wrap(nextId + k - 1)
           /\ \A c \in Clients \ ToSet(ps) : session'[c] = session[c] /\ id'[c] = id[c]
                                             /\ link'[c] = link[c]
           /\ \A k \in DOMAIN ps : route'[Wrap(nextId + k - 1)] = s
           /\ \A i \in ClientIds : \/ route'[i] = route[i]
                                   \/ \E k \in DOMAIN ps : i = Wrap(nextId + k - 1)
<1> USE RoutingAssumption DEF RoutingAssumption
<1> DEFINE number == [k \in DOMAIN ps |-> Wrap(nextId + k - 1)]
           at(c) == CHOOSE k \in DOMAIN ps : ps[k] = c
<1>1. IsFiniteSet(S)
    BY FS_Subset DEF Clients
<1>2. Cardinality(S) # 0
    BY <1>1, FS_EmptySet
<1>3. /\ Cardinality(S) \in Nat
      /\ DOMAIN ps = 1 .. Cardinality(S) /\ Len(ps) = Cardinality(S)
      /\ \A k, l \in DOMAIN ps : ps[k] = ps[l] => k = l
      /\ ToSet(ps) \subseteq S
      /\ \A k \in DOMAIN ps : ps[k] \in ToSet(ps)
    BY <1>1, ListShape
<1>4. /\ \A c \in ToSet(ps) : link[c] = "out"
      /\ session' = [c \in Clients |-> IF c \in ToSet(ps) THEN s ELSE session[c]]
      /\ id' = [c \in Clients |-> IF c \in ToSet(ps) THEN number[at(c)] ELSE id[c]]
      /\ link' = [c \in Clients |-> IF c \in ToSet(ps) THEN "up" ELSE link[c]]
      /\ route' = [i \in ClientIds |-> IF i \in ToSet(number) THEN s ELSE route[i]]
    BY DEF Start
<1>5. ToSet(number) = {Wrap(nextId + k - 1) : k \in DOMAIN ps}
    BY DEF ToSet
<1>6. \A k \in DOMAIN ps : Wrap(nextId + k - 1) \in ClientIds
    <2>1. \A k \in DOMAIN ps : nextId + k - 1 \in Int
        BY <1>3 DEF TypeInv, TypeOK, ClientIds
    <2> QED  BY <2>1, WrapType
<1>7. \A c \in ToSet(ps) : at(c) \in DOMAIN ps /\ ps[at(c)] = c
    BY DEF ToSet
<1>8. \A c \in ToSet(ps) : number[at(c)] = Wrap(nextId + at(c) - 1)
    BY <1>7
<1> HIDE DEF number, at
<1>9. ToSet(ps) \subseteq Clients /\ ToSet(ps) \subseteq Players
    BY <1>3 DEF Clients
<1>10. \A c \in ToSet(ps) : session[c] = Nobody
    BY <1>4, <1>9 DEF TypeInv, TypeOK
<1>11. \A c \in ToSet(ps) : \E k \in DOMAIN ps : ps[k] = c /\ id'[c] = Wrap(nextId + k - 1)
    BY <1>4, <1>7, <1>8, <1>9
<1>12. \A k \in DOMAIN ps : route'[Wrap(nextId + k - 1)] = s
    BY <1>4, <1>5, <1>6
<1>13. \A i \in ClientIds : \/ route'[i] = route[i]
                            \/ \E k \in DOMAIN ps : i = Wrap(nextId + k - 1)
    BY <1>4, <1>5
<1>14. \A c \in Clients \ ToSet(ps) : session'[c] = session[c] /\ id'[c] = id[c]
                                     /\ link'[c] = link[c]
    BY <1>4
<1>15. \A c \in ToSet(ps) : session'[c] = s
    BY <1>4, <1>9
<1>16. Len(ps) = Cardinality(S) /\ Len(ps) \in Nat \ {0} /\ DOMAIN ps = 1 .. Len(ps)
    BY <1>2, <1>3
<1> QED  BY <1>3, <1>9, <1>10, <1>11, <1>12, <1>13, <1>14, <1>15, <1>16

\* The start of a session counts it, and the hub advances.
LEMMA StartCounts ==
    ASSUME TypeInv, Counted, FewSessions, NEW s \in Sessions, NEW ps, Start(s, ps)
    PROVE  /\ Cardinality(Started) \in 0 .. IdLimit - 1
           /\ nextId = NextBy(Cardinality(Started)) /\ nextId \in ClientIds
           /\ nextId \notin Used /\ nextId \in Used'
           /\ Used \subseteq Used'
           /\ Wrap(nextId) = nextId
           /\ Counted'
           /\ Started' = Started \cup {s}
<1> USE RoutingAssumption DEF RoutingAssumption
<1> DEFINE n == Cardinality(Started)
<1>1. router[s] = "none" /\ router' = [router EXCEPT ![s] = "live"]
      /\ nextId' = Wrap(nextId + 1)
    BY DEF Start, FollowingId
<1>2. s \notin Started /\ Started \subseteq Sessions /\ Started' = Started \cup {s}
    BY <1>1 DEF Started, TypeInv, TypeOK
<1>3. IsFiniteSet(Started) /\ n \in Nat
    BY <1>2, FS_Subset, FS_CardinalityType
<1>4. IsFiniteSet(Started') /\ Cardinality(Started') = n + 1
    BY <1>2, <1>3, FS_AddElement
<1>5. Cardinality(Started') <= Cardinality(Sessions) /\ Cardinality(Sessions) \in Nat
    BY <1>2, FS_Subset, FS_CardinalityType
<1>6. n \in 0 .. IdLimit - 1
    BY <1>3, <1>4, <1>5 DEF FewSessions
<1> HIDE DEF n
<1>7. nextId = NextBy(n)
    BY DEF Counted, n
<1>8. /\ NextBy(n) \in ClientIds
      /\ NextBy(n) \notin UsedBy(n)
      /\ NextBy(n) \in UsedBy(n + 1)
      /\ UsedBy(n) \subseteq UsedBy(n + 1)
      /\ Wrap(NextBy(n) + 1) = NextBy(n + 1)
      /\ Wrap(NextBy(n)) = NextBy(n)
    BY <1>6, NextIsNew
<1>9. Used = UsedBy(n)
    BY DEF Used, n
<1>10. Used' = UsedBy(n + 1)
    BY <1>4 DEF Used, UsedBy
<1>11. Counted'
    BY <1>1, <1>4, <1>7, <1>8 DEF Counted, NextBy
<1> QED  BY <1>2, <1>6, <1>7, <1>8, <1>9, <1>10, <1>11 DEF n

\* A set with two members has more than one.
LEMMA TwoMembers ==
    ASSUME NEW S, IsFiniteSet(S), NEW a \in S, NEW b \in S, a # b
    PROVE  Cardinality(S) > 1
<1>1. IsFiniteSet({a}) /\ Cardinality({a}) = 1
    BY FS_Singleton
<1>2. IsFiniteSet({a} \cup {b}) /\ Cardinality({a} \cup {b}) = 2
    <2>1. b \notin {a}
        OBVIOUS
    <2> QED  BY <1>1, <2>1, FS_AddElement
<1>3. Cardinality({a} \cup {b}) <= Cardinality(S) /\ Cardinality(S) \in Nat
    BY FS_Subset, FS_CardinalityType
<1> QED  BY <1>2, <1>3

\* The start of a session gives its players ids that no running player has.
LEMMA StartIds ==
    ASSUME TypeInv, IdsInv, FewSessions, OrderlyGathers,
           NEW s \in Sessions, NEW S \in SUBSET Players, Cardinality(S) \in 1 .. MaxClients,
           NEW ps \in SetToSeqs(S), Start(s, ps)
    PROVE  /\ IdsInv'
           /\ \A p \in Players, k \in DOMAIN ps :
                 session[p] # Nobody => id[p] # Wrap(nextId + k - 1)
<1> USE RoutingAssumption DEF RoutingAssumption
<1>1. S # {}
    BY FS_EmptySet
<1>2. /\ Len(ps) = Cardinality(S) /\ Len(ps) \in Nat \ {0} /\ DOMAIN ps = 1 .. Len(ps)
      /\ \A k \in DOMAIN ps : ps[k] \in ToSet(ps)
      /\ \A k, l \in DOMAIN ps : ps[k] = ps[l] => k = l
      /\ ToSet(ps) \subseteq Players
      /\ \A c \in ToSet(ps) :
            /\ session[c] = Nobody /\ session'[c] = s
            /\ \E k \in DOMAIN ps : ps[k] = c /\ id'[c] = Wrap(nextId + k - 1)
      /\ \A c \in Clients \ ToSet(ps) : session'[c] = session[c] /\ id'[c] = id[c]
    BY <1>1, StartIs
<1>3. /\ nextId \in ClientIds /\ nextId \notin Used /\ nextId \in Used'
      /\ Used \subseteq Used' /\ Wrap(nextId) = nextId /\ Counted'
    BY StartCounts DEF IdsInv
<1>4. /\ router[s] = "none" /\ router' = [router EXCEPT ![s] = "live"]
      /\ \A t \in Sessions : Running(t) => Len(ps) = 1 /\ ~Multiplayer(t)
    <2>1. CASE GateHolds
        BY <2>1 DEF Start, ModeGate
    <2>2. CASE MaxClients = 1
        <3>1. Len(ps) = 1
            BY <1>2, <2>2
        <3> QED  BY <2>2, <3>1 DEF Start, IdsInv, Alone
    <2> QED  BY <2>1, <2>2 DEF OrderlyGathers
<1>5. \A t \in Sessions : Running(t)' <=> t = s \/ Running(t)
    BY <1>4 DEF Running, TypeInv, TypeOK
<1>6. \A c \in Clients : session[c] # Nobody => Running(session[c]) /\ session[c] # s
                                              /\ session[c] \in Sessions
    BY <1>4 DEF IdsInv, PlansRun, Running, TypeInv, TypeOK
<1>7. Players \subseteq Clients
    BY DEF Clients
<1>8. PlansRun'
    <2>1. ASSUME NEW c \in Clients, NEW t \in Sessions, session'[c] = t
          PROVE  t = s \/ Running(t)
        <3>1. CASE c \in ToSet(ps)
            BY <1>2, <2>1, <3>1
        <3>2. CASE c \notin ToSet(ps)
            BY <1>2, <1>6, <2>1, <3>2
        <3> QED  BY <3>1, <3>2
    <2> QED  BY <1>5, <2>1 DEF PlansRun
<1>9. CASE Len(ps) = 1
    <2> DEFINE p == ps[1]
    <2>1. DOMAIN ps = {1} /\ ToSet(ps) = {p}
        BY <1>2, <1>9 DEF ToSet
    <2>2. Wrap(nextId + 1 - 1) = nextId
        BY <1>3 DEF ClientIds
    <2>3. p \in Players /\ session[p] = Nobody /\ session'[p] = s /\ id'[p] = nextId
        BY <1>2, <2>1, <2>2
    <2> HIDE DEF p
    <2>4. \A c \in Clients \ {p} : session'[c] = session[c] /\ id'[c] = id[c]
        BY <1>2, <2>1
    <2>5. \A q \in Players : session[q] # Nobody => id[q] \in Used
        <3>1. \A q \in Players : session[q] # Nobody => ~Multiplayer(session[q])
            BY <1>4, <1>6, <1>7, <1>9
        <3>2. ASSUME NEW q \in Players, NEW t \in Sessions, session[q] = t
              PROVE  id[q] \in Used
            BY <1>6, <1>7, <3>1, <3>2 DEF IdsInv, SingleUsed
        <3> QED  BY <1>6, <1>7, <3>2
    <2>6. IdsApart'
        BY <1>3, <1>7, <2>3, <2>4, <2>5 DEF IdsInv, IdsApart
    <2>7. SingleUsed'
        <3>1. \A q \in Players : session'[q] # Nobody => id'[q] \in Used'
            BY <1>3, <1>7, <2>3, <2>4, <2>5
        <3> QED  BY <3>1 DEF SingleUsed
    <2>8. Alone'
        <3>1. ~Multiplayer(s)'
            <4>1. (Plan(s) \cap Players)' \subseteq {p}
                BY <1>6, <2>4 DEF Plan
            <4>2. IsFiniteSet({p}) /\ Cardinality({p}) = 1
                BY FS_Singleton
            <4>3. Cardinality((Plan(s) \cap Players)') <= 1
                  /\ Cardinality((Plan(s) \cap Players)') \in Nat
                BY <4>1, <4>2, FS_Subset, FS_CardinalityType
            <4> QED  BY <4>3 DEF Multiplayer
        <3>2. \A t \in Sessions \ {s} : Multiplayer(t)' = Multiplayer(t)
            <4>1. \A t \in Sessions \ {s} : (Plan(t) \cap Players)' = Plan(t) \cap Players
                BY <2>3, <2>4 DEF Plan
            <4> QED  BY <4>1 DEF Multiplayer
        <3>3. \A t \in Sessions : ~(Running(t)' /\ Multiplayer(t)')
            BY <1>4, <1>5, <1>9, <3>1, <3>2
        <3> QED  BY <3>3 DEF Alone
    <2>9. \A q \in Players, k \in DOMAIN ps : session[q] # Nobody => id[q] # Wrap(nextId + k - 1)
        BY <1>3, <2>1, <2>2, <2>5
    <2> QED  BY <1>3, <1>8, <2>6, <2>7, <2>8, <2>9 DEF IdsInv
<1>10. CASE Len(ps) # 1
    <2>1. Len(ps) > 1 /\ Len(ps) <= IdLimit /\ MaxClients # 1
        BY <1>2, <1>10 DEF OrderlyGathers
    <2>2. \A c \in Clients : session[c] = Nobody
        BY <1>4, <1>6, <1>10
    <2>3. \A c \in Clients : session'[c] # Nobody <=> c \in ToSet(ps)
        BY <1>2, <1>7, <2>2
    <2>4. IdsApart'
        <3>1. ASSUME NEW p \in ToSet(ps), NEW q \in ToSet(ps), id'[p] = id'[q]
              PROVE  p = q
            <4>1. PICK k \in DOMAIN ps : ps[k] = p /\ id'[p] = Wrap(nextId + k - 1)
                BY <1>2
            <4>2. PICK l \in DOMAIN ps : ps[l] = q /\ id'[q] = Wrap(nextId + l - 1)
                BY <1>2
            <4>3. k \in 1 .. IdLimit /\ l \in 1 .. IdLimit
                BY <1>2, <2>1
            <4>4. k = l
                BY <1>3, <3>1, <4>1, <4>2, <4>3, WrapApart
            <4> QED  BY <4>1, <4>2, <4>4
        <3> QED  BY <1>7, <2>3, <3>1 DEF IdsApart
    <2>5. SingleUsed'
        <3>1. Multiplayer(s)'
            <4> DEFINE P == (Plan(s) \cap Players)'
            <4>1. ps[1] \in P /\ ps[2] \in P /\ ps[1] # ps[2]
                BY <1>2, <1>7, <2>1 DEF Plan
            <4>2. IsFiniteSet(P)
                <5>1. P \subseteq Clients
                    BY DEF Plan
                <5> QED  BY <5>1, FS_Subset
            <4> HIDE DEF P
            <4>3. Cardinality(P) > 1
                BY <4>1, <4>2, TwoMembers
            <4> QED  BY <4>3 DEF Multiplayer, P
        <3>2. \A q \in Players : session'[q] # Nobody => session'[q] = s
            BY <1>2, <1>7, <2>3
        <3> QED  BY <3>1, <3>2 DEF SingleUsed, Multiplayer, Plan
    <2>6. Alone'
        <3>1. \A t \in Sessions : Running(t)' => t = s
            BY <1>4, <1>5, <1>10
        <3> QED  BY <2>1, <3>1 DEF Alone
    <2> QED  BY <1>3, <1>7, <1>8, <2>2, <2>4, <2>5, <2>6 DEF IdsInv
<1> QED  BY <1>9, <1>10

\* What starts no session keeps the ids apart.
LEMMA IdsKept ==
    ASSUME TypeInv, IdsInv, UNCHANGED nextId,
           \A s \in Sessions : /\ router'[s] = "none" <=> router[s] = "none"
                               /\ Running(s)' => Running(s),
           \A c \in Clients, s \in Sessions : session'[c] = s => Running(s)',
           \A p \in Players : id'[p] = id[p] /\ session'[p] \in {session[p], Nobody},
           \A p \in Players, s \in Sessions :
               session[p] = s /\ Running(s)' => session'[p] = s
    PROVE  IdsInv'
<1> USE RoutingAssumption DEF RoutingAssumption
<1>1. Started' = Started
    BY DEF Started
<1>2. Counted' /\ Used' = Used
    BY <1>1 DEF IdsInv, Counted, Used
<1>3. PlansRun'
    BY DEF PlansRun
<1>4. IdsApart'
    BY DEF IdsInv, IdsApart
<1>5. ASSUME NEW s \in Sessions, Running(s)'
      PROVE  Multiplayer(s)' = Multiplayer(s)
    <2>1. (Plan(s) \cap Players)' = Plan(s) \cap Players
        BY <1>5 DEF Plan
    <2> QED  BY <2>1 DEF Multiplayer
<1>6. SingleUsed'
    <2>1. ASSUME NEW p \in Players, NEW s \in Sessions, session'[p] = s, ~Multiplayer(s)'
          PROVE  id'[p] \in Used'
        <3>1. session[p] = s /\ Running(s)'
            BY <2>1 DEF Clients
        <3>2. ~Multiplayer(s)
            BY <1>5, <2>1, <3>1
        <3> QED  BY <1>2, <3>1, <3>2 DEF IdsInv, SingleUsed
    <2> QED  BY <2>1 DEF SingleUsed
<1>7. Alone'
    BY <1>5 DEF IdsInv, Alone
<1> QED  BY <1>2, <1>3, <1>4, <1>6, <1>7 DEF IdsInv

\* Every step keeps the ids of running players apart.
LEMMA StepIds ==
    ASSUME TypeInv, IdsInv, FewSessions, OrderlyGathers, [Next]_vars
    PROVE  IdsInv'
<1> USE RoutingAssumption DEF RoutingAssumption
<1>1. Players \subseteq Clients /\ Viewers \subseteq Clients /\ Players \cap Viewers = {}
    BY DEF Clients
<1>2. /\ \A c \in Clients, s \in Sessions : session[c] = s => Running(s)
      /\ \A c \in Clients : session[c] \in Sessions \cup {Nobody}
    BY DEF IdsInv, PlansRun, TypeInv, TypeOK
<1>3. ASSUME UNCHANGED <<nextId, router, session>>, \A p \in Players : id'[p] = id[p]
      PROVE  IdsInv'
    <2>1. \A s \in Sessions : Running(s)' = Running(s)
        BY <1>3 DEF Running
    <2> QED  BY <1>2, <1>3, <2>1, IdsKept
<1>4. ASSUME NEW s \in Sessions, NEW S \in SUBSET Players, Cardinality(S) \in 1 .. MaxClients,
             NEW ps \in SetToSeqs(S), Start(s, ps)
      PROVE  IdsInv'
    BY <1>4, StartIds
<1>5. ASSUME NEW v \in Viewers, NEW s \in Sessions, ViewerJoin(v, s)
      PROVE  IdsInv'
    <2>1. /\ router[s] = "live" /\ session' = [session EXCEPT ![v] = s]
          /\ UNCHANGED <<nextId, router>> /\ \E i \in IdsAfter(s) : id' = [id EXCEPT ![v] = i]
        BY <1>5 DEF ViewerJoin
    <2>2. \A p \in Players : id'[p] = id[p] /\ session'[p] = session[p]
        BY <1>1, <2>1 DEF TypeInv, TypeOK
    <2>3. \A t \in Sessions : Running(t)' = Running(t)
        BY <2>1 DEF Running
    <2>4. Running(s)
        BY <2>1 DEF Running
    <2>5. \A c \in Clients : session'[c] \in {session[c], s}
        BY <2>1 DEF TypeInv, TypeOK
    <2>6. \A c \in Clients, t \in Sessions : session'[c] = t => Running(t)'
        BY <1>2, <2>3, <2>4, <2>5
    <2> QED  BY <2>1, <2>2, <2>3, <2>6, IdsKept
<1>6. ASSUME NEW v \in Viewers, ViewerLeave(v)
      PROVE  IdsInv'
    <2>1. session' = [session EXCEPT ![v] = Nobody] /\ UNCHANGED <<nextId, router, id>>
        BY <1>6 DEF ViewerLeave
    <2>2. \A p \in Players : session'[p] = session[p]
        BY <1>1, <2>1 DEF TypeInv, TypeOK
    <2>3. \A t \in Sessions : Running(t)' = Running(t)
        BY <2>1 DEF Running
    <2>4. \A c \in Clients : session'[c] \in {session[c], Nobody}
        BY <2>1 DEF TypeInv, TypeOK
    <2> QED  BY <1>2, <2>1, <2>2, <2>3, <2>4, IdsKept
<1>7. ASSUME NEW s \in Sessions, Unregister(s)
      PROVE  IdsInv'
    <2>1. /\ router[s] = "live" /\ router' = [router EXCEPT ![s] = "unrouted"]
          /\ UNCHANGED <<nextId, session, id>>
        BY <1>7 DEF Unregister
    <2>2. \A t \in Sessions : /\ Running(t)' = Running(t)
                              /\ router'[t] = "none" <=> router[t] = "none"
        BY <2>1 DEF Running, TypeInv, TypeOK
    <2> QED  BY <1>2, <2>1, <2>2, IdsKept
<1>8. ASSUME NEW s \in Sessions, Destroy(s)
      PROVE  IdsInv'
    <2>1. /\ router[s] = "unrouted" /\ router' = [router EXCEPT ![s] = "gone"]
          /\ session' = [c \in Clients |-> IF session[c] = s THEN Nobody ELSE session[c]]
          /\ UNCHANGED <<nextId, id>>
        BY <1>8 DEF Destroy
    <2>2. \A t \in Sessions : /\ Running(t)' <=> t # s /\ Running(t)
                              /\ router'[t] = "none" <=> router[t] = "none"
        BY <2>1 DEF Running, TypeInv, TypeOK
    <2>3. \A c \in Clients, t \in Sessions : session'[c] = t => t # s /\ session[c] = t
        BY <2>1
    <2>4. \A c \in Clients, t \in Sessions : session'[c] = t => Running(t)'
        BY <1>2, <2>2, <2>3
    <2>5. \A p \in Players : session'[p] \in {session[p], Nobody}
        BY <1>1, <2>1
    <2>6. \A p \in Players, t \in Sessions : session[p] = t /\ Running(t)' => session'[p] = t
        BY <1>1, <2>1, <2>2
    <2> QED  BY <2>1, <2>2, <2>4, <2>5, <2>6, IdsKept
<1>9. /\ \A p \in Players : Lost(p) \/ Reconnect(p) => UNCHANGED <<nextId, router, session, id>>
      /\ \A p \in Players : \A held : Send(p, held) => UNCHANGED <<nextId, router, session, id>>
      /\ Network \/ Apply \/ ApplyToFreed \/ UNCHANGED vars
             => UNCHANGED <<nextId, router, session, id>>
    BY DEF Lost, Reconnect, Send, Network, Lose, Lookup, Apply, ApplyToFreed, vars
<1> QED
    BY <1>3, <1>4, <1>5, <1>6, <1>7, <1>8, <1>9 DEF Next, SessionThread, ClientEvents

\* No session has started, and the hub is at its first id.
LEMMA InitIds == Init => IdsInv
<1> SUFFICES ASSUME Init PROVE IdsInv
    OBVIOUS
<1> USE RoutingAssumption DEF RoutingAssumption
<1>1. Started = {} /\ Cardinality({}) = 0
    BY FS_EmptySet DEF Init, Started
<1>2. Counted
    BY <1>1 DEF Init, Counted, NextBy
<1>3. \A s \in Sessions : ~Running(s)
    BY DEF Init, Running
<1>4. \A c \in Clients : session[c] \notin Sessions
    BY DEF Init
<1>5. PlansRun /\ SingleUsed
    BY <1>4 DEF PlansRun, SingleUsed, Clients
<1>6. IdsApart
    BY DEF Init, IdsApart, Clients
<1>7. Alone
    BY <1>3 DEF Alone
<1> QED  BY <1>2, <1>5, <1>6, <1>7 DEF IdsInv

-----------------------------------------------------------------------------
(* The samples of a connected player reach its session. *)

\* A step leaves a connected player routed to its session, unless a viewer is
\* welcomed with the id of that player, and no session comes back to life.
LEMMA StepHome ==
    ASSUME TypeInv, IdsInv, FewSessions, OrderlyGathers, [Next]_vars,
           NEW p \in Players, link'[p] = "up", router'[session'[p]] = "live",
           link[p] = "up" => route[id[p]] = session[p] \/ router[session[p]] # "live",
           ~\E v \in Viewers : link[v] = "out" /\ link'[v] = "up" /\ id'[v] = id'[p]
    PROVE  route'[id'[p]] = session'[p]
<1> USE RoutingAssumption DEF RoutingAssumption
<1>1. /\ p \in Clients /\ Viewers \subseteq Clients /\ p \notin Viewers
      /\ session \in [Clients -> Sessions \cup {Nobody}]
      /\ router \in [Sessions -> {"none", "live", "unrouted", "gone"}]
      /\ id \in [Clients -> ClientIds \cup {Nobody}]
      /\ route \in [ClientIds -> Sessions \cup {Nobody}]
      /\ link \in [Clients -> {"out", "up", "lost"}]
      /\ link[p] # "out" => session[p] \in Sessions /\ id[p] \in ClientIds
    BY DEF Clients, TypeInv, TypeOK, IdKnown
<1>2. ASSUME link[p] = "up", id'[p] = id[p], session'[p] = session[p],
             router[session[p]] = "live" \/ router' = router,
             route'[id[p]] = route[id[p]]
      PROVE  route'[id'[p]] = session'[p]
    BY <1>2
<1>3. ASSUME NEW s \in Sessions, NEW S \in SUBSET Players, Cardinality(S) \in 1 .. MaxClients,
             NEW ps \in SetToSeqs(S), Start(s, ps)
      PROVE  route'[id'[p]] = session'[p]
    <2>1. S # {}
        <3>1. Cardinality({}) = 0
            BY FS_EmptySet
        <3> QED  BY <1>3, <3>1
    <2>2. /\ \A c \in ToSet(ps) :
                /\ session'[c] = s
                /\ \E k \in DOMAIN ps : ps[k] = c /\ id'[c] = Wrap(nextId + k - 1)
          /\ \A c \in Clients \ ToSet(ps) : session'[c] = session[c] /\ id'[c] = id[c]
                                            /\ link'[c] = link[c]
          /\ \A k \in DOMAIN ps : route'[Wrap(nextId + k - 1)] = s
          /\ \A i \in ClientIds : \/ route'[i] = route[i]
                                  \/ \E k \in DOMAIN ps : i = Wrap(nextId + k - 1)
        BY <1>3, <2>1, StartIs
    <2>3. CASE p \in ToSet(ps)
        BY <2>2, <2>3
    <2>4. CASE p \notin ToSet(ps)
        <3>1. session'[p] = session[p] /\ id'[p] = id[p] /\ link[p] = "up"
            BY <1>1, <2>2, <2>4
        <3>2. \A k \in DOMAIN ps : id[p] # Wrap(nextId + k - 1)
            BY <1>1, <1>3, <3>1, StartIds
        <3>3. route'[id[p]] = route[id[p]]
            BY <1>1, <2>2, <3>1, <3>2
        <3>4. router[s] = "none" /\ router' = [router EXCEPT ![s] = "live"] /\ Running(session[p])
            BY <1>1, <1>3, <3>1 DEF Start, IdsInv, PlansRun
        <3>5. router[session[p]] = "live"
            BY <1>1, <3>1, <3>4 DEF Running
        <3> QED  BY <1>2, <3>1, <3>3, <3>5
    <2> QED  BY <2>3, <2>4
<1>4. ASSUME NEW q \in Players, Lost(q)
      PROVE  route'[id'[p]] = session'[p]
    <2>1. link' = [link EXCEPT ![q] = "lost"] /\ UNCHANGED <<router, session, id, route>>
        BY <1>4 DEF Lost
    <2>2. link[p] = "up"
        BY <1>1, <2>1 DEF Clients
    <2> QED  BY <1>2, <2>1, <2>2
<1>5. ASSUME NEW q \in Players, Reconnect(q)
      PROVE  route'[id'[p]] = session'[p]
    <2>1. /\ link[q] = "lost" /\ link' = [link EXCEPT ![q] = "up"]
          /\ route' = [route EXCEPT ![id[q]] = session[q]]
          /\ UNCHANGED <<router, session, id>>
        BY <1>5 DEF Reconnect
    <2>2. CASE p = q
        BY <1>1, <2>1, <2>2
    <2>3. CASE p # q
        <3>1. link[p] = "up"
            BY <1>1, <2>1, <2>3
        <3>2. session[p] # Nobody /\ session[q] # Nobody
            BY <1>1, <2>1, <3>1 DEF Clients, TypeInv, TypeOK
        <3>3. id[p] # id[q]
            BY <2>3, <3>2 DEF IdsInv, IdsApart
        <3>4. route'[id[p]] = route[id[p]]
            BY <1>1, <2>1, <3>1, <3>3
        <3> QED  BY <1>2, <2>1, <3>1, <3>4
    <2> QED  BY <2>2, <2>3
<1>6. ASSUME NEW v \in Viewers, NEW s \in Sessions, ViewerJoin(v, s)
      PROVE  route'[id'[p]] = session'[p]
    <2>1. PICK i \in IdsAfter(s) : /\ id' = [id EXCEPT ![v] = i]
                                   /\ route' = [route EXCEPT ![i] = s]
        BY <1>6 DEF ViewerJoin
    <2>2. /\ link[v] = "out" /\ session' = [session EXCEPT ![v] = s]
          /\ link' = [link EXCEPT ![v] = "up"] /\ UNCHANGED router
        BY <1>6 DEF ViewerJoin
    <2>3. link'[v] = "up" /\ id'[v] = i
        BY <1>1, <2>1, <2>2
    <2>4. session'[p] = session[p] /\ id'[p] = id[p] /\ link[p] = "up"
        BY <1>1, <2>1, <2>2
    <2>5. route'[id[p]] = route[id[p]]
        BY <1>1, <2>1, <2>2, <2>3, <2>4
    <2> QED  BY <1>2, <2>2, <2>4, <2>5
<1>7. ASSUME NEW v \in Viewers, ViewerLeave(v)
      PROVE  route'[id'[p]] = session'[p]
    <2>1. /\ session' = [session EXCEPT ![v] = Nobody] /\ link' = [link EXCEPT ![v] = "out"]
          /\ UNCHANGED <<router, id, route>>
        BY <1>7 DEF ViewerLeave
    <2>2. session'[p] = session[p] /\ link[p] = "up"
        BY <1>1, <2>1
    <2> QED  BY <1>2, <2>1, <2>2
<1>8. ASSUME NEW s \in Sessions, Unregister(s)
      PROVE  route'[id'[p]] = session'[p]
    <2>1. /\ router' = [router EXCEPT ![s] = "unrouted"]
          /\ route' = [i \in ClientIds |-> IF route[i] = s THEN Nobody ELSE route[i]]
          /\ UNCHANGED <<session, id, link>>
        BY <1>8 DEF Unregister, UnregisterAllFor
    <2>2. session[p] # s /\ router[session[p]] = "live"
        BY <1>1, <2>1
    <2>3. route[id[p]] = session[p]
        BY <2>1, <2>2
    <2>4. route'[id[p]] = route[id[p]]
        BY <1>1, <2>1, <2>2, <2>3
    <2> QED  BY <2>1, <2>3, <2>4
<1>9. ASSUME NEW s \in Sessions, Destroy(s)
      PROVE  route'[id'[p]] = session'[p]
    <2>1. /\ router' = [router EXCEPT ![s] = "gone"]
          /\ session' = [c \in Clients |-> IF session[c] = s THEN Nobody ELSE session[c]]
          /\ link' = [c \in Clients |-> IF session[c] = s THEN "out" ELSE link[c]]
          /\ UNCHANGED <<id, route>>
        BY <1>9 DEF Destroy
    <2>2. link[p] = "up" /\ session[p] # s /\ session'[p] = session[p]
        BY <1>1, <2>1
    <2>3. router[session[p]] = "live"
        BY <1>1, <2>1, <2>2
    <2> QED  BY <1>2, <2>1, <2>2, <2>3
<1>10. ASSUME UNCHANGED <<router, session, id, link, route>>
       PROVE  route'[id'[p]] = session'[p]
    BY <1>2, <1>10
<1>11. /\ \A q \in Players : \A held : Send(q, held) => UNCHANGED <<router, session, id, link, route>>
       /\ Network \/ Apply \/ ApplyToFreed \/ UNCHANGED vars
              => UNCHANGED <<router, session, id, link, route>>
    BY DEF Send, Network, Lose, Lookup, Apply, ApplyToFreed, vars
<1> QED
    BY <1>3, <1>4, <1>5, <1>6, <1>7, <1>8, <1>9, <1>10, <1>11 DEF Next, SessionThread, ClientEvents

-----------------------------------------------------------------------------
(* Whose samples the pads show.  A gather takes several ids while the hub    *)
(* counts one, so this is about a host that gathers single players only.     *)

\* No two players have the same id, even after their sessions have ended, and
\* the hub has handed out every id a player has.
PlayerIds == \A p, q \in Players : id[p] # Nobody /\ id[p] = id[q] => p = q
AllUsed == \A p \in Players : id[p] # Nobody => id[p] \in Used

\* A datagram has an id that was handed out, and if a player has that id it is
\* the player who sent it.
Genuine(d) ==
    d.id \in Used /\ \A q \in Players : id[q] = d.id => q = d.from

\* The datagrams on their way, and the one the receiver thread has looked up.
Traffic ==
    /\ \A d \in net : Genuine(d)
    /\ udp.pc = "routing" => Genuine(udp.packet)

PortsInv == PlayerIds /\ AllUsed /\ Traffic /\ PortsIsolated

\* Nobody has an id yet, and nothing is on its way.
LEMMA InitPorts == Init => PortsInv
<1> SUFFICES ASSUME Init PROVE PortsInv
    OBVIOUS
<1>1. PlayerIds /\ AllUsed
    BY DEF Init, PlayerIds, AllUsed, Clients
<1>2. Traffic
    BY DEF Init, Traffic, Receiving
<1>3. PortsIsolated
    BY DEF Init, PortsIsolated, Neutral
<1> QED  BY <1>1, <1>2, <1>3 DEF PortsInv

\* What starts no session and changes no player's id keeps the ids, and every
\* datagram that it adds to no one's.
LEMMA TrafficKept ==
    ASSUME PortsInv, Used' = Used, \A p \in Players : id'[p] = id[p],
           \A d \in net' : d \in net \/ Genuine(d),
           udp' = udp \/ udp'.pc # "routing" \/ udp'.packet \in net
    PROVE  PlayerIds' /\ AllUsed' /\ Traffic'
<1>1. PlayerIds' /\ AllUsed'
    BY DEF PortsInv, PlayerIds, AllUsed
<1>2. \A d : Genuine(d)' <=> Genuine(d)
    BY DEF Genuine
<1>3. \A d \in net' : Genuine(d)
    BY DEF PortsInv, Traffic
<1>4. udp'.pc = "routing" => Genuine(udp'.packet)
    BY DEF PortsInv, Traffic
<1>5. Traffic'
    BY <1>3, <1>4 DEF Traffic, Genuine
<1> QED  BY <1>1, <1>5

\* What changes neither a pad nor the place of a player leaves the pads right.
LEMMA PadsKept ==
    ASSUME PortsIsolated, TypeOK, \A p \in Players : id'[p] = id[p],
           \A s \in Sessions, i \in ClientIds :
               \/ pad'[s][i].by = Nobody
               \/ /\ pad'[s][i].by = pad[s][i].by
                  /\ session'[pad[s][i].by] = session[pad[s][i].by]
    PROVE  PortsIsolated'
<1>1. ASSUME NEW s \in Sessions, NEW i \in ClientIds, pad'[s][i].by # Nobody
      PROVE  /\ session'[pad'[s][i].by] = s
             /\ id'[pad'[s][i].by] = i
    <2>1. /\ pad'[s][i].by = pad[s][i].by
          /\ session'[pad[s][i].by] = session[pad[s][i].by]
        BY <1>1
    <2>2. pad[s][i].by \in Players
        BY <1>1, <2>1 DEF TypeOK, Pads
    <2> QED  BY <1>1, <2>1, <2>2 DEF PortsIsolated
<1> QED  BY <1>1 DEF PortsIsolated

\* The start of a singleplayer session gives its player an id that no datagram
\* carries.
LEMMA StartPorts ==
    ASSUME TypeInv, IdsInv, PortsInv, FewSessions, MaxClients = 1,
           NEW s \in Sessions, NEW S \in SUBSET Players, Cardinality(S) \in 1 .. MaxClients,
           NEW ps \in SetToSeqs(S), Start(s, ps)
    PROVE  PortsInv'
<1>1. S # {}
    BY FS_EmptySet
<1>2. /\ Len(ps) = Cardinality(S) /\ DOMAIN ps = 1 .. Len(ps)
      /\ \A k \in DOMAIN ps : ps[k] \in ToSet(ps)
      /\ ToSet(ps) \subseteq Players
    BY <1>1, StartIs
<1>3. \A c \in ToSet(ps) :
          /\ session[c] = Nobody
          /\ \E k \in DOMAIN ps : ps[k] = c /\ id'[c] = Wrap(nextId + k - 1)
    BY <1>1, StartIs
<1>4. \A c \in Clients \ ToSet(ps) : session'[c] = session[c] /\ id'[c] = id[c]
    BY <1>1, StartIs
<1>5. /\ nextId \in ClientIds /\ nextId \notin Used /\ nextId \in Used'
      /\ Used \subseteq Used' /\ Wrap(nextId) = nextId
    BY StartCounts DEF IdsInv
<1>6. UNCHANGED <<pad, net, udp>>
    BY DEF Start
<1> DEFINE p == ps[1]
<1>7. DOMAIN ps = {1} /\ ToSet(ps) = {p}
    BY <1>2 DEF ToSet
<1>8. Wrap(nextId + 1 - 1) = nextId
    BY <1>5 DEF ClientIds
<1>9. p \in Players /\ session[p] = Nobody /\ id'[p] = nextId /\ nextId # Nobody
    BY <1>2, <1>3, <1>5, <1>7, <1>8, RoutingAssumption DEF ClientIds, RoutingAssumption
<1> HIDE DEF p
<1>10. \A q \in Players \ {p} : session'[q] = session[q] /\ id'[q] = id[q]
    BY <1>4, <1>7 DEF Clients
<1>11. PlayerIds' /\ AllUsed'
    BY <1>5, <1>9, <1>10 DEF PortsInv, PlayerIds, AllUsed
<1>12. ASSUME NEW d, Genuine(d)
       PROVE  d.id \in Used' /\ \A q \in Players : id'[q] = d.id => q = d.from
    BY <1>5, <1>9, <1>10, <1>12 DEF Genuine
<1>13. Traffic'
    BY <1>6, <1>12 DEF PortsInv, Traffic, Genuine
<1>14. ASSUME NEW t \in Sessions, NEW i \in ClientIds, pad[t][i].by # Nobody
       PROVE  /\ session'[pad[t][i].by] = t
              /\ id'[pad[t][i].by] = i
    <2>1. pad[t][i].by \in Players
        BY <1>14 DEF TypeInv, TypeOK, Pads
    <2>2. session[pad[t][i].by] = t /\ id[pad[t][i].by] = i
        BY <1>14 DEF PortsInv, PortsIsolated
    <2>3. pad[t][i].by # p
        BY <1>9, <2>2, RoutingAssumption DEF RoutingAssumption
    <2> QED  BY <1>10, <2>1, <2>2, <2>3
<1>15. PortsIsolated'
    BY <1>6, <1>14 DEF PortsIsolated
<1> QED  BY <1>11, <1>13, <1>15 DEF PortsInv

\* Every step keeps the samples of each player at its own seat.
LEMMA StepPorts ==
    ASSUME TypeInv, IdsInv, PortsInv, FewSessions, MaxClients = 1, [Next]_vars
    PROVE  PortsInv'
<1> USE RoutingAssumption DEF RoutingAssumption
<1>1. /\ Players \subseteq Clients /\ Viewers \subseteq Clients /\ Players \cap Viewers = {}
      /\ TypeOK
    BY DEF Clients, TypeInv
<1>2. \A s \in Sessions, i \in ClientIds :
          pad[s][i].by # Nobody => /\ pad[s][i].by \in Players
                                   /\ session[pad[s][i].by] = s
                                   /\ id[pad[s][i].by] = i
    BY DEF PortsInv, PortsIsolated, TypeInv, TypeOK, Pads
<1>3. ASSUME \A t \in Sessions : router'[t] = "none" <=> router[t] = "none"
      PROVE  Used' = Used
    BY <1>3 DEF Used, Started
<1>4. ASSUME NEW s \in Sessions, NEW S \in SUBSET Players, Cardinality(S) \in 1 .. MaxClients,
             NEW ps \in SetToSeqs(S), Start(s, ps)
      PROVE  PortsInv'
    BY <1>4, StartPorts
<1>5. ASSUME NEW p \in Players, Lost(p)
      PROVE  PortsInv'
    <2>1. UNCHANGED <<router, session, id, net, udp>>
        BY <1>5 DEF Lost
    <2>2. PICK s \in Sessions, i \in ClientIds, t \in Nat : pad' = [pad EXCEPT ![s][i] = Neutral(t)]
        <3>1. session[p] \in Sessions /\ id[p] \in ClientIds
            BY <1>1, <1>5 DEF Lost, TypeInv, TypeOK, IdKnown
        <3>2. last[session[p]][id[p]] \in Nat
            BY <1>1, <3>1 DEF TypeOK
        <3> DEFINE t == IF last[session[p]][id[p]] = 0 THEN 0 ELSE last[session[p]][id[p]] + 1
        <3>3. t \in Nat
            BY <3>2
        <3>4. pad' = [pad EXCEPT ![session[p]][id[p]] = Neutral(t)]
            BY <1>5 DEF Lost
        <3> QED  BY <3>1, <3>3, <3>4
    <2>3. \A u \in Sessions, j \in ClientIds : pad'[u][j].by \in {pad[u][j].by, Nobody}
        BY <1>1, <2>2 DEF TypeOK, Neutral
    <2>4. PortsIsolated'
        BY <1>1, <2>1, <2>3, PadsKept DEF PortsInv
    <2> QED  BY <1>3, <2>1, <2>4, TrafficKept DEF PortsInv
<1>6. ASSUME NEW p \in Players, NEW held, Send(p, held)
      PROVE  PortsInv'
    <2>1. /\ UNCHANGED <<router, session, id, pad, udp>> /\ id[p] # Nobody
          /\ net' = net \cup
                {[id |-> id[p], from |-> p, time |-> Copies * sent[p] + k, held |-> held] :
                    k \in 1 .. Copies}
        BY <1>6 DEF Send
    <2>2. \A d \in net' : d \in net \/ (d.id = id[p] /\ d.from = p)
        BY <2>1
    <2>3. \A d \in net' : d \in net \/ Genuine(d)
        BY <2>1, <2>2 DEF Genuine, PortsInv, PlayerIds, AllUsed
    <2>4. PortsIsolated'
        BY <1>1, <2>1, PadsKept DEF PortsInv
    <2> QED  BY <1>3, <2>1, <2>3, <2>4, TrafficKept DEF PortsInv
<1>7. ASSUME NEW d \in net, Lose(d) \/ Lookup(d)
      PROVE  PortsInv'
    <2>1. /\ UNCHANGED <<router, session, id, pad>>
          /\ net' \subseteq net
          /\ udp' = udp \/ udp'.packet \in net
        BY <1>7 DEF Lose, Lookup
    <2>2. PortsIsolated'
        BY <1>1, <2>1, PadsKept DEF PortsInv
    <2> QED  BY <1>3, <2>1, <2>2, TrafficKept DEF PortsInv
<1>8. ASSUME Apply
      PROVE  PortsInv'
    <2> DEFINE s == udp.router
               d == udp.packet
    <2>1. /\ udp.pc = "routing" /\ udp' = Receiving /\ UNCHANGED <<router, session, id, net>>
          /\ \/ Seated(s, d.id) /\ pad' = [pad EXCEPT ![s][d.id] =
                                     [by |-> d.from, time |-> d.time, held |-> d.held]]
             \/ pad' = pad
        BY <1>8 DEF Apply
    <2>2. s \in Sessions /\ d \in Datagrams
        BY <1>1, <2>1 DEF TypeOK
    <2>3. Genuine(d)
        BY <2>1 DEF PortsInv, Traffic
    <2> HIDE DEF s, d
    <2>4. d.id \in ClientIds /\ d.from \in Players
        BY <2>2 DEF Datagrams
    <2>5. udp'.pc # "routing"
        BY <2>1 DEF Receiving
    <2>6. PortsIsolated'
        <3>1. CASE pad' = pad
            BY <1>1, <2>1, <3>1, PadsKept DEF PortsInv
        <3>2. CASE /\ Seated(s, d.id)
                   /\ pad' = [pad EXCEPT ![s][d.id] =
                         [by |-> d.from, time |-> d.time, held |-> d.held]]
            <4>1. session[d.from] = s /\ id[d.from] = d.id
                BY <2>3, <3>2 DEF Seated, Genuine
            <4>2. pad'[s][d.id].by = d.from
                BY <1>1, <2>2, <2>4, <3>2 DEF TypeOK
            <4>3. \A t \in Sessions, i \in ClientIds :
                      t # s \/ i # d.id => pad'[t][i] = pad[t][i]
                BY <1>1, <2>2, <2>4, <3>2 DEF TypeOK
            <4>4. \A t \in Sessions, i \in ClientIds :
                      pad'[t][i].by # Nobody => /\ session[pad'[t][i].by] = t
                                                /\ id[pad'[t][i].by] = i
                BY <1>2, <4>1, <4>2, <4>3
            <4> QED  BY <2>1, <4>4 DEF PortsIsolated
        <3> QED  BY <2>1, <3>1, <3>2
    <2> QED  BY <1>3, <2>1, <2>5, <2>6, TrafficKept DEF PortsInv
<1>9. ASSUME NEW s \in Sessions, Destroy(s)
      PROVE  PortsInv'
    <2>1. /\ router[s] = "unrouted" /\ router' = [router EXCEPT ![s] = "gone"]
          /\ session' = [c \in Clients |-> IF session[c] = s THEN Nobody ELSE session[c]]
          /\ pad' = [pad EXCEPT ![s] = [i \in ClientIds |-> Neutral(0)]]
          /\ UNCHANGED <<id, net, udp>>
        BY <1>9 DEF Destroy
    <2>2. \A t \in Sessions : router'[t] = "none" <=> router[t] = "none"
        BY <1>1, <2>1 DEF TypeOK
    <2>3. \A i \in ClientIds : pad'[s][i].by = Nobody
        BY <1>1, <2>1 DEF TypeOK, Neutral
    <2>4. \A t \in Sessions \ {s}, i \in ClientIds : pad'[t][i] = pad[t][i]
        BY <1>1, <2>1 DEF TypeOK
    <2>5. \A t \in Sessions \ {s}, i \in ClientIds :
              pad[t][i].by # Nobody => session'[pad[t][i].by] = session[pad[t][i].by]
        BY <1>1, <1>2, <2>1
    <2>6. PortsIsolated'
        BY <1>1, <2>1, <2>3, <2>4, <2>5, PadsKept DEF PortsInv
    <2> QED  BY <1>3, <2>1, <2>2, <2>6, TrafficKept DEF PortsInv
<1>10. ASSUME UNCHANGED <<net, udp, pad>>, \A q \in Players : id'[q] = id[q] /\ session'[q] = session[q],
              \A t \in Sessions : router'[t] = "none" <=> router[t] = "none"
       PROVE  PortsInv'
    <2>1. PortsIsolated'
        BY <1>1, <1>2, <1>10, PadsKept DEF PortsInv
    <2> QED  BY <1>3, <1>10, <2>1, TrafficKept DEF PortsInv
<1>11. ASSUME NEW v \in Viewers, (\E s \in Sessions : ViewerJoin(v, s)) \/ ViewerLeave(v)
       PROVE  PortsInv'
    <2>1. /\ UNCHANGED <<net, udp, pad, router>>
          /\ \E t : session' = [session EXCEPT ![v] = t]
          /\ \E i : id' = [id EXCEPT ![v] = i] \/ id' = id
        BY <1>11 DEF ViewerJoin, ViewerLeave
    <2>2. \A q \in Players : id'[q] = id[q] /\ session'[q] = session[q]
        BY <1>1, <2>1 DEF TypeOK
    <2> QED  BY <1>10, <2>1, <2>2
<1>12. ASSUME NEW s \in Sessions, Unregister(s)
       PROVE  PortsInv'
    <2>1. /\ router[s] = "live" /\ router' = [router EXCEPT ![s] = "unrouted"]
          /\ UNCHANGED <<net, udp, pad, id, session>>
        BY <1>12 DEF Unregister
    <2>2. \A t \in Sessions : router'[t] = "none" <=> router[t] = "none"
        BY <1>1, <2>1 DEF TypeOK
    <2> QED  BY <1>10, <2>1, <2>2
<1>13. ASSUME NEW p \in Players, Reconnect(p)
       PROVE  PortsInv'
    BY <1>10, <1>13 DEF Reconnect
<1>14. ASSUME UNCHANGED vars
       PROVE  PortsInv'
    BY <1>10, <1>14 DEF vars
<1>15. ASSUME ApplyToFreed
       PROVE  PortsInv'
    <2>1. UNCHANGED <<router, session, id, pad, net>> /\ udp'.pc # "routing"
        BY <1>15 DEF ApplyToFreed, Receiving
    <2>2. PortsIsolated'
        BY <1>1, <2>1, PadsKept DEF PortsInv
    <2> QED  BY <1>3, <2>1, <2>2, TrafficKept DEF PortsInv
<1> QED
    BY <1>4, <1>5, <1>6, <1>7, <1>8, <1>9, <1>11, <1>12, <1>13, <1>14, <1>15
       DEF Next, SessionThread, ClientEvents, Network

-----------------------------------------------------------------------------
(* The theorems. *)

\* Every state of the routing keeps the types, the demux consistent with the
\* life of the routers, and the pads behind the accepted times.
THEOREM RoutingInvariant == Spec => []IInv
<1>1. IInv /\ [Next]_vars => IInv'
    BY StepType, StepRoutes, StepTimes DEF IInv
<1> QED  BY InitInv, <1>1, PTL DEF Spec

\* Every variable of the routing keeps its type: ids stay within a ClientId and a
\* client has a connection exactly while a plan holds it.
THEOREM TypeCorrect == Spec => []TypeOK
<1>1. IInv => TypeOK
    BY DEF IInv, TypeInv
<1> QED  BY RoutingInvariant, <1>1, PTL

\* unregister_all_for leaves nothing behind, even when ids collide and viewers
\* leave without being unregistered: the demux leads to live routers only.
THEOREM DemuxLeadsToLiveRouters == Spec => []RoutesLive
<1>1. IInv => RoutesLive
    BY DEF IInv
<1> QED  BY RoutingInvariant, <1>1, PTL

\* No order of delivery, loss, duplication or reconnection rewinds a plugged pad.
THEOREM PadsNeverRewind == Spec => NoRewind
<1>1. IInv /\ [Next]_vars =>
          \A s \in Sessions, i \in ClientIds :
              router'[s] = "live" => pad'[s][i].time >= pad[s][i].time
    BY StepTimes DEF IInv
<1> QED  BY RoutingInvariant, <1>1, PTL DEF Spec, NoRewind

\* Once the samples of a connected player reach its session they go on doing so,
\* whatever other sessions do, as long as the host runs no more sessions than
\* there are ids and keeps multiplayer to itself: register_client never takes a
\* running player's id away.
THEOREM RoutesAreKept ==
    ASSUME FewSessions, OrderlyGathers
    PROVE  Spec => HomeKept
<1>1. IInv /\ IdsInv /\ [Next]_vars => IdsInv'
    BY StepIds DEF IInv
<1>2. Spec => []IdsInv
    BY RoutingInvariant, InitIds, <1>1, PTL DEF Spec
<1>3. IInv /\ IdsInv /\ [Next]_vars =>
          \A p \in Players :
              /\ link'[p] = "up" /\ router'[session'[p]] = "live"
              /\ link[p] = "up" => route[id[p]] = session[p]
              /\ ~\E v \in Viewers : link[v] = "out" /\ link'[v] = "up" /\ id'[v] = id'[p]
              => route'[id'[p]] = session'[p]
    BY StepHome DEF IInv
<1> QED  BY RoutingInvariant, <1>2, <1>3, PTL DEF Spec, HomeKept

\* On a host that nobody watches the samples of a connected player always reach
\* the session that seats the player.
THEOREM RoutesLeadHome ==
    ASSUME FewSessions, OrderlyGathers, Viewers = {}
    PROVE  Spec => []RoutesHome
<1>1. Init => RoutesHome
    BY DEF Init, RoutesHome, Clients
<1>2. IInv /\ IdsInv /\ [Next]_vars => IdsInv'
    BY StepIds DEF IInv
<1>3. Spec => []IdsInv
    BY RoutingInvariant, InitIds, <1>2, PTL DEF Spec
<1>4. IInv /\ IdsInv /\ RoutesHome /\ [Next]_vars => RoutesHome'
    <2> SUFFICES ASSUME IInv, IdsInv, RoutesHome, [Next]_vars PROVE RoutesHome'
        OBVIOUS
    <2>1. ASSUME NEW p \in Players, link'[p] = "up", router'[session'[p]] = "live"
          PROVE  route'[id'[p]] = session'[p]
        <3>1. link[p] = "up" => route[id[p]] = session[p] \/ router[session[p]] # "live"
            BY DEF RoutesHome
        <3> QED  BY <2>1, <3>1, StepHome DEF IInv
    <2> QED  BY <2>1 DEF RoutesHome
<1> QED  BY RoutingInvariant, <1>1, <1>3, <1>4, PTL DEF Spec

\* What a pad shows was sampled by the player at its seat, however datagrams are
\* lost, duplicated, reordered and kept until their session is long over, on a
\* host that gathers single players and runs no more sessions than there are ids.
THEOREM PortsAreIsolated ==
    ASSUME FewSessions, MaxClients = 1
    PROVE  Spec => []PortsIsolated
<1>1. OrderlyGathers
    BY RoutingAssumption DEF RoutingAssumption, OrderlyGathers
<1>2. IInv /\ IdsInv /\ [Next]_vars => IdsInv'
    BY <1>1, StepIds DEF IInv
<1>3. Spec => []IdsInv
    BY RoutingInvariant, InitIds, <1>2, PTL DEF Spec
<1>4. IInv /\ IdsInv /\ PortsInv /\ [Next]_vars => PortsInv'
    BY StepPorts DEF IInv
<1>5. PortsInv => PortsIsolated
    BY DEF PortsInv
<1> QED  BY RoutingInvariant, InitPorts, <1>3, <1>4, <1>5, PTL DEF Spec
=============================================================================
