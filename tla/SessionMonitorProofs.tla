------------------------ MODULE SessionMonitorProofs ------------------------
(***************************************************************************)
(* The supervision of a session with any number of players and viewers.    *)
(***************************************************************************)
EXTENDS SessionMonitor, FiniteSetTheorems, SequenceTheorems, TLAPS

Joins == [who : Clients, end : Ends]
Seats == [at : {"out", "up", "down"}, reason : Reasons, away : 0 .. Grace,
          silent : 0 .. Timeout + 1]
Wires == [sent : SUBSET {"beat", "leave"}, end : Ends]
Threads == [pc : {"drain", "attach", "kick", "visit"}, i : Nat \ {0}, batch : Seq(Joins)]
Overs == [why : Causes, who : Clients \cup {NoClient}]

\* The plan holds who is seated or watches, each once.
PlanOK ==
    /\ plan \in Seq(Clients) /\ IsInjective(plan)
    /\ \A c \in Clients : Contains(plan, c) <=> seat[c].at # "out"

\* What the monitor has noted about silence is no more than what there was.
SilenceOK ==
    \A c \in Clients : seat[c].at = "up" =>
        /\ seat[c].reason = ""
        /\ "beat" \notin wire[c].sent => seat[c].silent <= quiet[c]

\* A player of whom a leave is known has left.
LeaveOK ==
    \A p \in Players :
        /\ "leave" \in wire[p].sent => client[p] = "left"
        /\ seat[p].at = "down" /\ seat[p].reason = "left" => client[p] = "left"

IInv == TypeOK /\ PlanOK /\ SilenceOK /\ LeaveOK /\ EndsForCause

\* What a step may not do, for OnlySilentTimedOut and NoTakeover
SilentStep ==
    \A c \in Clients :
        /\ seat[c].at = "up"
        /\ \/ seat'[c].reason = "heartbeat timed out"
           \/ /\ c \in Viewers /\ seat'[c].at = "out"
              /\ wire[c].end \in {"open", "mute"} /\ c \notin kicks
              /\ "leave" \notin wire[c].sent
        => quiet[c] > Timeout

OwnerStep ==
    \A c \in Clients :
        seat[c].at = "up" /\ seat'[c].at = "up" /\ wire[c].end # "open"
        => wire'[c].end = wire[c].end

Safe == IInv' /\ SilentStep /\ OwnerStep

-----------------------------------------------------------------------------
(* Sequences. *)

\* Removing a place of a sequence without repetitions takes its element away.
LEMMA Removal ==
    ASSUME NEW S, NEW q \in Seq(S), IsInjective(q), NEW i \in 1 .. Len(q)
    PROVE  /\ RemoveAt(q, i) \in Seq(S) /\ IsInjective(RemoveAt(q, i))
           /\ \A e : Contains(RemoveAt(q, i), e) <=> Contains(q, e) /\ e # q[i]
<1> DEFINE a == SubSeq(q, 1, i - 1)
           b == SubSeq(q, i + 1, Len(q))
           r == RemoveAt(q, i)
<1>1. /\ Len(q) \in Nat /\ i \in Nat /\ i <= Len(q) /\ DOMAIN q = 1 .. Len(q)
      /\ \A k \in 1 .. Len(q) : q[k] \in S
    OBVIOUS
<1>2. /\ a \in Seq(S) /\ Len(a) = i - 1
      /\ \A k \in 1 .. i - 1 : a[k] = q[k]
    <2>1. i - 1 \in Int /\ \A k \in 1 .. i - 1 : q[k] \in S
        BY <1>1
    <2>2. /\ a \in Seq(S) /\ Len(a) = IF 1 <= i - 1 THEN i - 1 - 1 + 1 ELSE 0
          /\ \A k \in 1 .. i - 1 - 1 + 1 : a[k] = q[1 + k - 1]
        BY <2>1, SubSeqProperties
    <2> QED  BY <1>1, <2>2
<1>3. /\ b \in Seq(S) /\ Len(b) = Len(q) - i
      /\ \A k \in 1 .. Len(q) - i : b[k] = q[i + k]
    <2>1. i + 1 \in Int /\ Len(q) \in Int /\ \A k \in i + 1 .. Len(q) : q[k] \in S
        BY <1>1
    <2>2. /\ b \in Seq(S) /\ Len(b) = IF i + 1 <= Len(q) THEN Len(q) - (i + 1) + 1 ELSE 0
          /\ \A k \in 1 .. Len(q) - (i + 1) + 1 : b[k] = q[i + 1 + k - 1]
        BY <2>1, SubSeqProperties
    <2>3. Len(q) - (i + 1) + 1 = Len(q) - i /\ \A k \in Int : i + 1 + k - 1 = i + k
        BY <1>1
    <2>4. Len(b) = Len(q) - i
        <3> HIDE DEF b
        <3>1. CASE i + 1 <= Len(q)
            BY <1>1, <2>2, <2>3, <3>1
        <3>2. CASE ~(i + 1 <= Len(q))
            <4>1. i = Len(q)
                <5>1. \A m, n \in Nat : m <= n /\ ~(m + 1 <= n) => m = n
                    OBVIOUS
                <5> QED  BY <1>1, <3>2, <5>1
            <4>2. Len(b) = 0
                BY <2>2, <3>2
            <4> QED  BY <1>1, <4>1, <4>2
        <3> QED  BY <3>1, <3>2
    <2>5. \A k \in 1 .. Len(q) - i : b[k] = q[i + k]
        <3> TAKE k \in 1 .. Len(q) - i
        <3>1. k \in Int /\ k \in 1 .. Len(q) - (i + 1) + 1
            BY <2>3
        <3>2. b[k] = q[i + 1 + k - 1]
            BY <2>2, <3>1
        <3> QED  BY <2>3, <3>1, <3>2
    <2> QED  BY <2>2, <2>4, <2>5
<1>4. r = a \o b
    BY DEF RemoveAt
<1> HIDE DEF a, b, r
<1>5. /\ r \in Seq(S) /\ Len(r) = Len(q) - 1
      /\ \A k \in 1 .. Len(q) - 1 : r[k] = IF k < i THEN q[k] ELSE q[k + 1]
    <2>1. /\ r \in Seq(S) /\ Len(r) = Len(a) + Len(b)
          /\ \A k \in 1 .. Len(a) + Len(b) :
                 r[k] = IF k <= Len(a) THEN a[k] ELSE b[k - Len(a)]
        BY <1>2, <1>3, <1>4, ConcatProperties
    <2>2. Len(a) + Len(b) = Len(q) - 1
        BY <1>1, <1>2, <1>3
    <2>3. \A k \in 1 .. Len(q) - 1 : r[k] = IF k < i THEN q[k] ELSE q[k + 1]
        <3> TAKE k \in 1 .. Len(q) - 1
        <3>1. r[k] = IF k <= i - 1 THEN a[k] ELSE b[k - (i - 1)]
            BY <1>2, <2>1, <2>2
        <3>2. CASE k < i
            BY <1>1, <1>2, <3>1, <3>2
        <3>3. CASE ~(k < i)
            <4>1. k - (i - 1) \in 1 .. Len(q) - i /\ i + (k - (i - 1)) = k + 1
                BY <1>1, <3>3
            <4>2. r[k] = b[k - (i - 1)]
                BY <1>1, <3>1, <3>3
            <4> QED  BY <1>3, <3>3, <4>1, <4>2
        <3> QED  BY <3>2, <3>3
    <2> QED  BY <2>1, <2>2, <2>3
<1>6. IsInjective(r)
    <2>1. DOMAIN r = 1 .. Len(q) - 1
        BY <1>5
    <2> DEFINE from(k) == IF k < i THEN k ELSE k + 1
    <2>2. \A k \in DOMAIN r : from(k) \in DOMAIN q /\ r[k] = q[from(k)]
        BY <1>1, <1>5, <2>1
    <2>3. \A k, l \in DOMAIN r : from(k) = from(l) => k = l
        BY <1>1, <2>1
    <2> HIDE DEF from
    <2>4. \A k, l \in DOMAIN r : r[k] = r[l] => from(k) = from(l)
        BY <2>2 DEF IsInjective
    <2> QED  BY <2>3, <2>4 DEF IsInjective
<1>7. ASSUME NEW e, Contains(r, e) PROVE Contains(q, e) /\ e # q[i]
    <2>1. PICK k \in 1 .. Len(q) - 1 : r[k] = e
        BY <1>5, <1>7 DEF Contains
    <2>2. PICK m \in 1 .. Len(q) : m # i /\ q[m] = e
        BY <1>1, <1>5, <2>1
    <2> QED  BY <1>1, <2>2 DEF Contains, IsInjective
<1>8. ASSUME NEW e, Contains(q, e), e # q[i] PROVE Contains(r, e)
    <2>1. PICK m \in 1 .. Len(q) : m # i /\ q[m] = e
        BY <1>8 DEF Contains
    <2>2. r[IF m < i THEN m ELSE m - 1] = e
        BY <1>1, <1>5, <2>1
    <2>3. (IF m < i THEN m ELSE m - 1) \in 1 .. Len(r)
        BY <1>1, <1>5, <2>1
    <2> QED  BY <2>2, <2>3 DEF Contains
<1> QED  BY <1>5, <1>6, <1>7, <1>8 DEF r

\* Appending an element that is not there adds just that.
LEMMA Appending ==
    ASSUME NEW S, NEW q \in Seq(S), IsInjective(q), NEW x \in S, ~Contains(q, x)
    PROVE  /\ Append(q, x) \in Seq(S) /\ IsInjective(Append(q, x))
           /\ \A e : Contains(Append(q, x), e) <=> Contains(q, e) \/ e = x
<1> DEFINE r == Append(q, x)
<1>1. /\ r \in Seq(S) /\ Len(r) = Len(q) + 1 /\ Len(q) \in Nat
      /\ \A k \in 1 .. Len(q) : r[k] = q[k]
      /\ r[Len(q) + 1] = x /\ DOMAIN q = 1 .. Len(q) /\ DOMAIN r = 1 .. Len(q) + 1
    BY AppendProperties
<1> HIDE DEF r
<1>2. IsInjective(r)
    BY <1>1 DEF IsInjective, Contains
<1>3. \A e : Contains(r, e) <=> Contains(q, e) \/ e = x
    BY <1>1 DEF Contains
<1> QED  BY <1>1, <1>2, <1>3 DEF r

\* Ending the connections of a client keeps a list of joins one.
LEMMA Closing ==
    ASSUME NEW joins \in Seq(Joins), NEW c, NEW e \in Ends
    PROVE  CloseJoins(joins, c, e) \in Seq(Joins)
<1>1. /\ Len(joins) \in Nat /\ DOMAIN joins = 1 .. Len(joins)
      /\ \A k \in 1 .. Len(joins) : joins[k] \in Joins
    OBVIOUS
<1>2. \A j \in Joins : [j EXCEPT !.end = e] \in Joins
    BY DEF Joins
<1>3. CloseJoins(joins, c, e) \in [1 .. Len(joins) -> Joins]
    BY <1>1, <1>2 DEF CloseJoins
<1> QED  BY <1>1, <1>3, IsASeq
-----------------------------------------------------------------------------
(* Steps that leave the clients and their connections alone. *)

\* A step that does not end the session cannot end it without a cause.
LEMMA CauseKept ==
    ASSUME over.why = "no", over' = over
    PROVE  EndsForCause'
<1> QED  BY DEF EndsForCause

\* The slot thread moves on.
LEMMA CalmSafe ==
    ASSUME IInv, UNCHANGED <<plan, seat, wire, kicks, client, quiet, age>>,
           inbox' \in Seq(Joins), slot' \in Threads, over' \in Overs, EndsForCause'
    PROVE  Safe
<1>1. TypeOK'
    BY DEF IInv, TypeOK, Joins, Threads, Overs
<1>2. PlanOK' /\ SilenceOK' /\ LeaveOK'
    BY DEF IInv, PlanOK, SilenceOK, LeaveOK
<1>3. SilentStep /\ OwnerStep
    BY DEF IInv, SilenceOK, SilentStep, OwnerStep
<1> QED  BY <1>1, <1>2, <1>3 DEF IInv, Safe

\* The thread moves to places it has.
LEMMA ThreadAt ==
    ASSUME slot \in Threads, NEW place \in {"drain", "attach", "kick", "visit"}, GoTo(place)
    PROVE  slot' \in Threads
<1> QED  BY DEF Threads, GoTo

\* The steps between the loops change the thread and the inbox alone.
LEMMA RoundSafe ==
    ASSUME IInv, over.why = "no",
           TakeInbox \/ StartPoll \/ PassKick \/ StartVisits \/ EndPoll
    PROVE  Safe
<1>1. UNCHANGED <<plan, seat, wire, kicks, client, quiet, age, over>>
    BY DEF TakeInbox, StartPoll, PassKick, StartVisits, EndPoll
<1>2. inbox \in Seq(Joins) /\ slot \in Threads /\ over \in Overs
    BY DEF IInv, TypeOK, Joins, Threads, Overs
<1>3. inbox' = inbox \/ inbox' = <<>>
    BY DEF TakeInbox, StartPoll, PassKick, StartVisits, EndPoll
<1>4. slot' \in Threads
    <2>1. CASE TakeInbox
        BY <1>2, <2>1 DEF TakeInbox, Threads
    <2>2. CASE StartPoll
        BY <1>2, <2>2, ThreadAt DEF StartPoll
    <2>3. CASE PassKick
        BY <1>2, <2>3 DEF PassKick, Advance, Threads
    <2>4. CASE StartVisits
        BY <1>2, <2>4, ThreadAt DEF StartVisits
    <2>5. CASE EndPoll
        BY <1>2, <2>5, ThreadAt DEF EndPoll
    <2> QED  BY <2>1, <2>2, <2>3, <2>4, <2>5
<1>5. inbox' \in Seq(Joins)
    BY <1>2, <1>3, EmptySeq
<1> QED  BY <1>1, <1>2, <1>4, <1>5, CauseKept, CalmSafe

\* Inside the plan the thread visits a client of the plan.
LEMMA VisitedClient ==
    ASSUME IInv, slot.i <= Len(plan)
    PROVE  /\ slot.i \in 1 .. Len(plan) /\ Visiting \in Clients
           /\ Contains(plan, Visiting)
<1>1. slot.i \in Nat \ {0} /\ plan \in Seq(Clients)
    BY DEF IInv, TypeOK
<1> QED  BY <1>1 DEF Visiting, Contains

\* A reserved seat is given up after its time.
LEMMA VisitReservedSafe ==
    ASSUME IInv, over.why = "no", VisitReserved
    PROVE  Safe
<1> DEFINE c == Visiting
<1>1. /\ UNCHANGED <<plan, seat, wire, kicks, client, quiet, age>> /\ inbox' = inbox
      /\ slot.i <= Len(plan) /\ seat[c].at = "down"
      /\ \/ Expired(c) /\ End("timeout", c)
         \/ Advance /\ over' = over
    BY DEF VisitReserved, AtVisit
<1>2. inbox \in Seq(Joins) /\ slot \in Threads /\ over \in Overs
    BY DEF IInv, TypeOK, Joins, Threads, Overs
<1>3. c \in Clients
    BY <1>1, VisitedClient
<1>4. c \in Players
    BY <1>1, <1>3 DEF IInv, TypeOK, Clients
<1> HIDE DEF c
<1>5. CASE Expired(c) /\ End("timeout", c)
    <2>1. slot' \in Threads /\ over' \in Overs
        BY <1>2, <1>3, <1>5 DEF End, Overs, Causes
    <2>2. EndsForCause'
        <3>1. seat[c].reason = "left" => client[c] = "left"
            BY <1>1, <1>4 DEF IInv, LeaveOK
        <3>2. seat[c].reason \notin {"left", "kicked"} => seat[c].away >= Grace
            BY <1>5 DEF Expired, GraceFor
        <3> QED  BY <1>1, <1>4, <3>1, <3>2 DEF EndsForCause
    <2> QED  BY <1>1, <1>2, <2>1, <2>2, CalmSafe
<1>6. CASE Advance /\ over' = over
    <2>1. slot' \in Threads /\ over' \in Overs
        BY <1>2, <1>6 DEF Advance, Threads
    <2> QED  BY <1>1, <1>2, <1>6, <2>1, CauseKept, CalmSafe
<1> QED  BY <1>1, <1>5, <1>6

\* A stop and a reset end the session for nobody's cause.
LEMMA StoppingSafe ==
    ASSUME IInv, over.why = "no", VisitReset \/ Stop
    PROVE  Safe
<1>1. /\ UNCHANGED <<plan, seat, wire, kicks, client, quiet, age>>
      /\ inbox' = inbox /\ slot' = slot
    BY DEF VisitReset, Stop, End
<1>2. inbox \in Seq(Joins) /\ slot \in Threads
    BY DEF IInv, TypeOK, Joins, Threads
<1>3. VisitReset => Visiting \in Clients
    BY VisitedClient DEF VisitReset, Connected, AtVisit
<1>4. over' \in Overs /\ over'.why \in {"error", "stopped"}
    BY <1>3 DEF VisitReset, Stop, End, Overs, Causes
<1>5. EndsForCause'
    BY <1>4 DEF EndsForCause
<1> QED  BY <1>1, <1>2, <1>4, <1>5, CalmSafe
-----------------------------------------------------------------------------
(* Steps that take a client out of its place. *)

\* The seats of those who are not connected
LEMMA SeatsOfRest ==
    ASSUME NEW why \in Reasons
    PROVE  Out \in Seats /\ Down(why) \in Seats /\ Out.at = "out" /\ Down(why).at = "down"
<1>1. 0 \in 0 .. Grace /\ 0 \in 0 .. Timeout + 1
    BY MonitorAssumption
<1>2. "" \in Reasons
    BY DEF Reasons
<1> QED  BY <1>1, <1>2 DEF Out, Down, Seats

\* A dropped viewer leaves the plan, a dropped player keeps its place.
LEMMA DropSeats ==
    ASSUME IInv, slot.i <= Len(plan), seat[Visiting].at = "up",
           NEW why \in Reasons, Drop(Visiting, why)
    PROVE  /\ PlanOK' /\ kicks' = kicks \ {Visiting}
           /\ seat' \in [Clients -> Seats]
           /\ \A d \in Clients \ {Visiting} : seat'[d] = seat[d]
           /\ Visiting \in Viewers => seat'[Visiting] = Out
           /\ Visiting \in Players => seat'[Visiting] = Down(why)
<1> DEFINE c == Visiting
<1>1. /\ slot.i \in 1 .. Len(plan) /\ c \in Clients /\ c = plan[slot.i]
      /\ plan \in Seq(Clients) /\ IsInjective(plan)
      /\ \A d \in Clients : Contains(plan, d) <=> seat[d].at # "out"
      /\ seat \in [Clients -> Seats] /\ seat[c].at = "up"
    BY VisitedClient DEF IInv, TypeOK, PlanOK, Seats, Visiting
<1>2. Out \in Seats /\ Down(why) \in Seats /\ Out.at = "out" /\ Down(why).at = "down"
    BY SeatsOfRest
<1>3. kicks' = kicks \ {c}
    BY DEF Drop
<1> HIDE DEF c
<1>4. CASE c \in Viewers
    <2>1. plan' = RemoveAt(plan, slot.i) /\ seat' = [seat EXCEPT ![c] = Out]
        BY <1>4 DEF Drop, c
    <2>2. /\ plan' \in Seq(Clients) /\ IsInjective(plan')
          /\ \A d : Contains(plan', d) <=> Contains(plan, d) /\ d # c
        BY <1>1, <2>1, Removal
    <2>3. seat' \in [Clients -> Seats] /\ seat'[c] = Out
          /\ \A d \in Clients \ {c} : seat'[d] = seat[d]
        BY <1>1, <1>2, <2>1
    <2>4. \A d \in Clients : Contains(plan', d) <=> seat'[d].at # "out"
        BY <1>1, <1>2, <2>2, <2>3
    <2>5. c \notin Players
        BY <1>4, MonitorAssumption
    <2> QED  BY <1>3, <1>4, <2>2, <2>3, <2>4, <2>5 DEF PlanOK, c
<1>5. CASE c \notin Viewers
    <2>1. plan' = plan /\ seat' = [seat EXCEPT ![c] = Down(why)]
        BY <1>5 DEF Drop, c
    <2>2. seat' \in [Clients -> Seats] /\ seat'[c] = Down(why)
          /\ \A d \in Clients \ {c} : seat'[d] = seat[d]
        BY <1>1, <1>2, <2>1
    <2>3. \A d \in Clients : Contains(plan', d) <=> seat'[d].at # "out"
        BY <1>1, <1>2, <2>1, <2>2
    <2> QED  BY <1>1, <1>3, <1>5, <2>1, <2>2, <2>3 DEF PlanOK, c
<1> QED  BY <1>4, <1>5

\* The rest of the state, when one client is dropped for a good reason
LEMMA DropSafe ==
    ASSUME IInv, slot.i <= Len(plan), seat[Visiting].at = "up",
           NEW why \in Reasons, Drop(Visiting, why),
           UNCHANGED <<wire, inbox, quiet, age>>,
           client' \in [Clients -> {"in", "away", "gone", "left", "kicked"}],
           \A d \in Clients : client[d] = "left" => client'[d] = "left",
           why = "left" => "leave" \in wire[Visiting].sent,
           why = "heartbeat timed out" => quiet[Visiting] > Timeout,
           \/ wire[Visiting].end \notin {"open", "mute"}
           \/ Visiting \in kicks \/ "leave" \in wire[Visiting].sent
           \/ quiet[Visiting] > Timeout,
           slot' \in Threads, over' \in Overs, EndsForCause'
    PROVE  Safe
<1> DEFINE c == Visiting
<1>1. /\ PlanOK' /\ kicks' = kicks \ {c} /\ seat' \in [Clients -> Seats]
      /\ \A d \in Clients \ {c} : seat'[d] = seat[d]
      /\ c \in Viewers => seat'[c] = Out
      /\ c \in Players => seat'[c] = Down(why)
    BY DropSeats
<1>2. c \in Clients /\ Clients = Players \cup Viewers /\ Players \cap Viewers = {}
    BY VisitedClient, MonitorAssumption DEF Clients
<1>3. /\ Out.at = "out" /\ Out.reason = ""
      /\ Down(why).at = "down" /\ Down(why).reason = why
    BY DEF Out, Down
<1> HIDE DEF c
<1>4. TypeOK'
    <2>1. \A v \in Viewers : seat'[v].at # "down"
        <3>1. \A v \in Viewers : seat[v].at # "down"
            BY DEF IInv, TypeOK
        <3>2. \A v \in Viewers : v # c => seat'[v] = seat[v]
            BY <1>1, <1>2
        <3>3. c \in Viewers => seat'[c].at = "out"
            BY <1>1, <1>3
        <3> QED  BY <3>1, <3>2, <3>3
    <2>2. \A d \in Clients : Contains(plan', d) <=> seat'[d].at # "out"
        BY <1>1 DEF PlanOK
    <2>3. plan' \in Seq(Clients) /\ kicks' \subseteq Clients
        BY <1>1 DEF PlanOK, IInv, TypeOK
    <2> QED  BY <1>1, <2>1, <2>2, <2>3 DEF IInv, TypeOK, Seats, Threads, Joins, Overs
<1>5. SilenceOK'
    <2>1. seat'[c].at # "up"
        BY <1>1, <1>2, <1>3
    <2>2. \A d \in Clients : seat'[d].at = "up" => d # c /\ seat'[d] = seat[d]
        BY <1>1, <2>1
    <2> QED  BY <2>2 DEF IInv, SilenceOK
<1>6. LeaveOK'
    <2> SUFFICES ASSUME NEW p \in Players
                 PROVE  /\ "leave" \in wire'[p].sent => client'[p] = "left"
                        /\ seat'[p].at = "down" /\ seat'[p].reason = "left" => client'[p] = "left"
        BY DEF LeaveOK
    <2>1. "leave" \in wire[p].sent => client'[p] = "left"
        BY <1>2 DEF IInv, LeaveOK
    <2>2. CASE p = c
        BY <1>1, <1>3, <2>1, <2>2 DEF c
    <2>3. CASE p # c
        BY <1>1, <1>2, <2>1, <2>3 DEF IInv, LeaveOK
    <2> QED  BY <2>2, <2>3
<1>7. SilentStep
    <2> SUFFICES ASSUME NEW d \in Clients, seat[d].at = "up",
                        \/ seat'[d].reason = "heartbeat timed out"
                        \/ /\ d \in Viewers /\ seat'[d].at = "out"
                           /\ wire[d].end \in {"open", "mute"} /\ d \notin kicks
                           /\ "leave" \notin wire[d].sent
                 PROVE  quiet[d] > Timeout
        BY DEF SilentStep
    <2>1. seat[d].reason = ""
        BY DEF IInv, SilenceOK
    <2>2. d = c
        BY <1>1, <2>1
    <2> QED  BY <1>1, <1>2, <1>3, <2>2 DEF c
<1>8. OwnerStep
    BY DEF OwnerStep
<1> QED  BY <1>1, <1>4, <1>5, <1>6, <1>7, <1>8 DEF IInv, Safe
\* The thread moves on.
LEMMA AdvanceThread ==
    ASSUME slot \in Threads, Advance
    PROVE  slot' \in Threads
<1> QED  BY DEF Advance, Threads

\* The thread moves on from a player it has dropped, and stays for the next after a viewer.
LEMMA DroppedThread ==
    ASSUME IInv, NEW c, AfterDrop(c)
    PROVE  slot' \in Threads
<1>1. slot \in Threads
    BY DEF IInv, TypeOK, Threads, Joins
<1>2. slot' = slot \/ slot' = [slot EXCEPT !.i = @ + 1]
    BY DEF AfterDrop, Advance
<1> QED  BY <1>1, <1>2 DEF Threads

\* A kick is a request that somebody has made.
LEMMA CarryOutKickSafe ==
    ASSUME IInv, over.why = "no", CarryOutKick
    PROVE  Safe
<1> DEFINE c == Visiting
<1>1. /\ slot.i <= Len(plan) /\ seat[c].at = "up" /\ c \in kicks /\ Drop(c, "kicked")
      /\ UNCHANGED <<wire, inbox, quiet, age>>
      /\ client' = [client EXCEPT ![c] = IF @ = "in"
                      THEN IF c \in Players THEN "kicked" ELSE "away" ELSE @]
    BY DEF CarryOutKick, Kicked
<1>2. \/ c \in Players /\ End("kicked", c)
      \/ AfterDrop(c) /\ over' = over
    BY DEF CarryOutKick
<1>3. c \in Clients /\ slot \in Threads /\ over \in Overs
      /\ client \in [Clients -> {"in", "away", "gone", "left", "kicked"}]
    BY <1>1, VisitedClient DEF IInv, TypeOK, Threads, Joins, Overs
<1>4. c \in Players => seat'[c] = Down("kicked")
    BY <1>1, DropSeats DEF Reasons
<1>5. "kicked" \in Reasons
    BY DEF Reasons
<1> HIDE DEF c
<1>6. client' \in [Clients -> {"in", "away", "gone", "left", "kicked"}]
      /\ \A d \in Clients : client[d] = "left" => client'[d] = "left"
    BY <1>1, <1>3
<1>7. slot' \in Threads /\ over' \in Overs /\ EndsForCause'
    <2>1. CASE c \in Players /\ End("kicked", c)
        <3>1. slot' = slot /\ over' = [why |-> "kicked", who |-> c]
            BY <2>1 DEF End
        <3>2. EndsForCause'
            BY <1>4, <2>1 DEF EndsForCause, Down
        <3> QED  BY <1>3, <3>1, <3>2 DEF Overs, Causes
    <2>2. CASE AfterDrop(c) /\ over' = over
        BY <1>3, <2>2, DroppedThread, CauseKept
    <2> QED  BY <1>2, <2>1, <2>2
<1> QED  BY <1>1, <1>5, <1>6, <1>7, DropSafe DEF c

\* A leave that is read has been sent.
LEMMA VisitLeaveSafe ==
    ASSUME IInv, over.why = "no", VisitLeave
    PROVE  Safe
<1> DEFINE c == Visiting
<1>1. /\ slot.i <= Len(plan) /\ seat[c].at = "up" /\ "leave" \in wire[c].sent
      /\ Drop(c, "left")
      /\ UNCHANGED <<wire, inbox, quiet, age>> /\ client' = client
    BY DEF VisitLeave, Connected, AtVisit
<1>2. \/ c \in Players /\ End("left", c)
      \/ AfterDrop(c) /\ over' = over
    BY DEF VisitLeave
<1>3. c \in Clients /\ slot \in Threads /\ over \in Overs
      /\ client \in [Clients -> {"in", "away", "gone", "left", "kicked"}]
    BY <1>1, VisitedClient DEF IInv, TypeOK, Threads, Joins, Overs
<1>4. "left" \in Reasons
    BY DEF Reasons
<1> HIDE DEF c
<1>5. slot' \in Threads /\ over' \in Overs /\ EndsForCause'
    <2>1. CASE c \in Players /\ End("left", c)
        <3>1. slot' = slot /\ over' = [why |-> "left", who |-> c]
            BY <2>1 DEF End
        <3>2. client[c] = "left"
            BY <1>1, <2>1 DEF IInv, LeaveOK
        <3>3. EndsForCause'
            BY <1>1, <2>1, <3>2 DEF EndsForCause
        <3> QED  BY <1>3, <3>1, <3>3 DEF Overs, Causes
    <2>2. CASE AfterDrop(c) /\ over' = over
        BY <1>3, <2>2, DroppedThread, CauseKept
    <2> QED  BY <1>2, <2>1, <2>2
<1> QED  BY <1>1, <1>3, <1>4, <1>5, DropSafe DEF c

\* A connection that is dropped has ended, or has been silent too long.
LEMMA VisitLostSafe ==
    ASSUME IInv, over.why = "no", VisitClosed \/ VisitSilent
    PROVE  Safe
<1> DEFINE c == Visiting
<1>1. /\ slot.i <= Len(plan) /\ seat[c].at = "up"
      /\ UNCHANGED <<wire, inbox, quiet, age, over>> /\ client' = client /\ AfterDrop(c)
    BY DEF VisitClosed, VisitSilent, Connected, AtVisit
<1>2. \/ Drop(c, "disconnected") /\ wire[c].end \notin {"open", "mute"}
      \/ Drop(c, "heartbeat timed out") /\ Late(c)
    BY DEF VisitClosed, VisitSilent
<1>3. c \in Clients /\ over \in Overs
      /\ client \in [Clients -> {"in", "away", "gone", "left", "kicked"}]
    BY <1>1, VisitedClient DEF IInv, TypeOK, Overs
<1>4. "disconnected" \in Reasons /\ "heartbeat timed out" \in Reasons
    BY DEF Reasons
<1>5. slot' \in Threads /\ over' \in Overs /\ EndsForCause'
    BY <1>1, <1>3, DroppedThread, CauseKept
<1>6. Late(c) => quiet[c] > Timeout
    <2>1. "beat" \notin wire[c].sent => seat[c].silent <= quiet[c]
        BY <1>1, <1>3 DEF IInv, SilenceOK
    <2>2. seat[c].silent \in 0 .. Timeout + 1 /\ quiet[c] \in 0 .. Timeout + 1 /\ Timeout \in Nat
        BY <1>3, MonitorAssumption DEF IInv, TypeOK
    <2> QED  BY <2>1, <2>2 DEF Late
<1> HIDE DEF c
<1>7. CASE Drop(c, "disconnected") /\ wire[c].end \notin {"open", "mute"}
    BY <1>1, <1>3, <1>4, <1>5, <1>7, DropSafe DEF c
<1>8. CASE Drop(c, "heartbeat timed out") /\ Late(c)
    BY <1>1, <1>3, <1>4, <1>5, <1>6, <1>8, DropSafe DEF c
<1> QED  BY <1>2, <1>7, <1>8
-----------------------------------------------------------------------------
(* Joins and heartbeats. *)

\* Nobody's place changes: types and parts that depend on connections remain.
LEMMA WireSafe ==
    ASSUME IInv, over.why = "no", UNCHANGED <<plan, kicks, age, over>>,
           seat' \in [Clients -> Seats],
           \A c \in Clients : /\ seat'[c].at = seat[c].at
                              /\ seat'[c].reason = seat[c].reason,
           wire' \in [Clients -> Wires], inbox' \in Seq(Joins), slot' \in Threads,
           client' \in [Clients -> {"in", "away", "gone", "left", "kicked"}],
           quiet' \in [Clients -> 0 .. Timeout + 1],
           SilenceOK', LeaveOK', OwnerStep
    PROVE  Safe
<1>1. PlanOK'
    BY DEF IInv, PlanOK
<1>2. TypeOK'
    <2>1. \A v \in Viewers : seat'[v].at # "down"
        BY DEF IInv, TypeOK, Clients
    <2>2. \A c \in Clients : Contains(plan', c) <=> seat'[c].at # "out"
        BY <1>1 DEF PlanOK
    <2> QED  BY <2>1, <2>2 DEF IInv, TypeOK, Seats, Wires, Threads, Joins
<1>3. SilentStep
    BY DEF IInv, SilenceOK, SilentStep
<1>4. EndsForCause'
    BY CauseKept
<1> QED  BY <1>1, <1>2, <1>3, <1>4 DEF IInv, Safe

\* A heartbeat that is read changes the silence of a seat alone.
LEMMA Reset ==
    ASSUME NEW t \in Seats
    PROVE  /\ [t EXCEPT !.silent = 0] \in Seats
           /\ [t EXCEPT !.silent = 0].at = t.at /\ [t EXCEPT !.silent = 0].reason = t.reason
<1>1. 0 \in 0 .. Timeout + 1
    BY MonitorAssumption
<1> QED  BY <1>1 DEF Seats

\* Once its heartbeat is read a seat is at most as silent as its client.
LEMMA VisitHealthySafe ==
    ASSUME IInv, over.why = "no", VisitHealthy
    PROVE  Safe
<1> DEFINE c == Visiting
<1>1. /\ slot.i <= Len(plan) /\ seat[c].at = "up"
      /\ UNCHANGED <<plan, inbox, kicks, client, quiet, age, over>>
      /\ seat' = IF "beat" \in wire[c].sent THEN [seat EXCEPT ![c].silent = 0] ELSE seat
      /\ wire' = [wire EXCEPT ![c].sent = {}]
      /\ Advance
    BY DEF VisitHealthy, Connected, AtVisit
<1>2. c \in Clients
    BY <1>1, VisitedClient
<1>3. /\ seat \in [Clients -> Seats] /\ wire \in [Clients -> Wires] /\ slot \in Threads
      /\ inbox \in Seq(Joins) /\ quiet \in [Clients -> 0 .. Timeout + 1]
      /\ client \in [Clients -> {"in", "away", "gone", "left", "kicked"}]
      /\ Timeout \in Nat
    BY MonitorAssumption DEF IInv, TypeOK, Seats, Wires, Threads, Joins
<1> HIDE DEF c
<1>4. slot' \in Threads
    BY <1>1, <1>3, AdvanceThread
<1>5. /\ wire' \in [Clients -> Wires] /\ wire'[c].sent = {} /\ wire'[c].end = wire[c].end
      /\ \A d \in Clients \ {c} : wire'[d] = wire[d]
    BY <1>1, <1>2, <1>3 DEF Wires
<1>6. /\ seat' \in [Clients -> Seats]
      /\ \A d \in Clients : seat'[d].at = seat[d].at /\ seat'[d].reason = seat[d].reason
    <2>1. CASE "beat" \in wire[c].sent
        <3>1. seat' = [seat EXCEPT ![c] = [seat[c] EXCEPT !.silent = 0]]
            BY <1>1, <2>1
        <3>2. /\ [seat[c] EXCEPT !.silent = 0] \in Seats
              /\ [seat[c] EXCEPT !.silent = 0].at = seat[c].at
              /\ [seat[c] EXCEPT !.silent = 0].reason = seat[c].reason
            BY <1>2, <1>3, Reset
        <3> QED  BY <1>2, <1>3, <3>1, <3>2
    <2>2. CASE "beat" \notin wire[c].sent
        BY <1>1, <1>3, <2>2
    <2> QED  BY <2>1, <2>2
<1>7. /\ \A d \in Clients \ {c} : seat'[d] = seat[d]
      /\ "beat" \in wire[c].sent => seat'[c].silent = 0
      /\ "beat" \notin wire[c].sent => seat'[c] = seat[c]
    BY <1>1, <1>2, <1>3 DEF Seats
<1>8. SilenceOK'
    <2>1. seat'[c].reason = "" /\ seat'[c].silent <= quiet[c]
        <3>1. seat'[c].reason = ""
            BY <1>1, <1>2, <1>6 DEF IInv, SilenceOK
        <3>2. CASE "beat" \in wire[c].sent
            <4>1. quiet[c] \in Nat
                BY <1>2, <1>3
            <4>2. seat'[c].silent = 0
                BY <1>7, <3>2
            <4>3. \A n \in Nat : 0 <= n
                OBVIOUS
            <4>4. seat'[c].silent <= quiet[c]
                BY <4>1, <4>2, <4>3
            <4> QED  BY <3>1, <4>4
        <3>3. CASE "beat" \notin wire[c].sent
            BY <1>1, <1>2, <1>7, <3>1, <3>3 DEF IInv, SilenceOK
        <3> QED  BY <3>2, <3>3
    <2>2. \A d \in Clients \ {c} : seat'[d] = seat[d] /\ wire'[d] = wire[d]
        BY <1>5, <1>7
    <2> QED  BY <1>1, <2>1, <2>2 DEF IInv, SilenceOK
<1>9. LeaveOK'
    <2> SUFFICES ASSUME NEW p \in Players
                 PROVE  /\ "leave" \in wire'[p].sent => client'[p] = "left"
                        /\ seat'[p].at = "down" /\ seat'[p].reason = "left" => client'[p] = "left"
        BY DEF LeaveOK
    <2>1. p \in Clients
        BY DEF Clients
    <2>2. "leave" \in wire'[p].sent => "leave" \in wire[p].sent
        BY <1>5, <2>1
    <2> QED  BY <1>1, <1>6, <2>1, <2>2 DEF IInv, LeaveOK
<1>10. OwnerStep
    BY <1>5 DEF OwnerStep
<1> QED  BY <1>1, <1>3, <1>4, <1>5, <1>6, <1>8, <1>9, <1>10, WireSafe

\* A heartbeat ends the silence of the client before that of its seat.
LEMMA BeatSafe ==
    ASSUME IInv, over.why = "no", NEW c \in Clients, Beat(c)
    PROVE  Safe
<1>1. /\ UNCHANGED <<plan, kicks, age, over>>
      /\ seat' = seat /\ inbox' = inbox /\ slot' = slot /\ client' = client
      /\ wire' = [wire EXCEPT ![c].sent = @ \cup {"beat"}]
      /\ quiet' = [quiet EXCEPT ![c] = 0]
      /\ "leave" \notin wire[c].sent
    BY DEF Beat
<1>2. /\ seat \in [Clients -> Seats] /\ wire \in [Clients -> Wires] /\ slot \in Threads
      /\ inbox \in Seq(Joins) /\ quiet \in [Clients -> 0 .. Timeout + 1]
      /\ client \in [Clients -> {"in", "away", "gone", "left", "kicked"}]
      /\ Timeout \in Nat
    BY MonitorAssumption DEF IInv, TypeOK, Seats, Wires, Threads, Joins
<1>3. /\ wire' \in [Clients -> Wires] /\ wire'[c].end = wire[c].end
      /\ wire'[c].sent = wire[c].sent \cup {"beat"}
      /\ \A d \in Clients \ {c} : wire'[d] = wire[d] /\ quiet'[d] = quiet[d]
    BY <1>1, <1>2 DEF Wires
<1>4. quiet' \in [Clients -> 0 .. Timeout + 1]
    BY <1>1, <1>2
<1>5. SilenceOK'
    BY <1>1, <1>3 DEF IInv, SilenceOK
<1>6. LeaveOK'
    BY <1>1, <1>3 DEF IInv, LeaveOK, Clients
<1>7. OwnerStep
    BY <1>3 DEF OwnerStep
<1> QED  BY <1>1, <1>2, <1>3, <1>4, <1>5, <1>6, <1>7, WireSafe

\* A client that leaves says so.
LEMMA LeaveSafe ==
    ASSUME IInv, over.why = "no", NEW c \in Clients, Leave(c)
    PROVE  Safe
<1>1. /\ UNCHANGED <<plan, kicks, age, over>>
      /\ seat' = seat /\ inbox' = inbox /\ slot' = slot /\ quiet' = quiet
      /\ wire' = [wire EXCEPT ![c] = [sent |-> @.sent \cup {"leave"}, end |-> "fin"]]
      /\ client' = [client EXCEPT ![c] = IF c \in Players THEN "left" ELSE "away"]
      /\ wire[c].end = "open" /\ client[c] = "in"
    BY DEF Leave
<1>2. /\ seat \in [Clients -> Seats] /\ wire \in [Clients -> Wires] /\ slot \in Threads
      /\ inbox \in Seq(Joins) /\ quiet \in [Clients -> 0 .. Timeout + 1]
      /\ client \in [Clients -> {"in", "away", "gone", "left", "kicked"}]
    BY DEF IInv, TypeOK, Seats, Wires, Threads, Joins
<1>3. /\ wire' \in [Clients -> Wires] /\ wire'[c].sent = wire[c].sent \cup {"leave"}
      /\ \A d \in Clients \ {c} : wire'[d] = wire[d] /\ client'[d] = client[d]
    BY <1>1, <1>2 DEF Wires, Ends
<1>4. /\ client' \in [Clients -> {"in", "away", "gone", "left", "kicked"}]
      /\ c \in Players => client'[c] = "left"
    BY <1>1, <1>2
<1>5. SilenceOK'
    BY <1>1, <1>3 DEF IInv, SilenceOK
<1>6. LeaveOK'
    BY <1>1, <1>3, <1>4 DEF IInv, LeaveOK, Clients
<1>7. OwnerStep
    BY <1>1, <1>3 DEF OwnerStep
<1> QED  BY <1>1, <1>2, <1>3, <1>4, <1>5, <1>6, <1>7, WireSafe
\* A client that vanishes says nothing.
LEMMA VanishSafe ==
    ASSUME IInv, over.why = "no", NEW c \in Clients, NEW e \in Cuts,
           NEW next \in {"away", "gone"}, Vanish(c, e, next)
    PROVE  Safe
<1>1. /\ UNCHANGED <<plan, kicks, age, over>> /\ seat' = seat /\ quiet' = quiet
      /\ client[c] = "in" /\ client' = [client EXCEPT ![c] = next]
      /\ wire' = IF wire[c].end = "open" THEN [wire EXCEPT ![c].end = e] ELSE wire
      /\ inbox' = CloseJoins(inbox, c, e)
      /\ slot' = [slot EXCEPT !.batch = CloseJoins(@, c, e)]
    BY DEF Vanish
<1>2. /\ seat \in [Clients -> Seats] /\ wire \in [Clients -> Wires] /\ slot \in Threads
      /\ inbox \in Seq(Joins) /\ quiet \in [Clients -> 0 .. Timeout + 1]
      /\ client \in [Clients -> {"in", "away", "gone", "left", "kicked"}]
      /\ e \in Ends
    BY DEF IInv, TypeOK, Seats, Wires, Threads, Joins, Ends
<1>3. inbox' \in Seq(Joins) /\ slot' \in Threads
    <2>1. slot.batch \in Seq(Joins)
        BY <1>2 DEF Threads
    <2>2. CloseJoins(inbox, c, e) \in Seq(Joins) /\ CloseJoins(slot.batch, c, e) \in Seq(Joins)
        BY <1>2, <2>1, Closing
    <2> QED  BY <1>1, <1>2, <2>2 DEF Threads
<1>4. /\ wire' \in [Clients -> Wires]
      /\ \A d \in Clients : /\ wire'[d].sent = wire[d].sent
                            /\ wire[d].end # "open" => wire'[d].end = wire[d].end
    <2>1. CASE wire[c].end = "open"
        BY <1>1, <1>2, <2>1 DEF Wires
    <2>2. CASE wire[c].end # "open"
        BY <1>1, <1>2, <2>2
    <2> QED  BY <2>1, <2>2
<1>5. /\ client' \in [Clients -> {"in", "away", "gone", "left", "kicked"}]
      /\ \A d \in Clients : client[d] = "left" => client'[d] = "left"
    BY <1>1, <1>2
<1>6. SilenceOK'
    BY <1>1, <1>4 DEF IInv, SilenceOK
<1>7. LeaveOK'
    BY <1>1, <1>4, <1>5 DEF IInv, LeaveOK, Clients
<1>8. OwnerStep
    BY <1>4 DEF OwnerStep
<1> QED  BY <1>1, <1>2, <1>3, <1>4, <1>5, <1>6, <1>7, <1>8, WireSafe

\* A join waits in the inbox.
LEMMA JoinSafe ==
    ASSUME IInv, over.why = "no", NEW c \in Clients, Join(c)
    PROVE  Safe
<1>1. /\ UNCHANGED <<plan, kicks, age, over>>
      /\ seat' = seat /\ wire' = wire /\ slot' = slot /\ quiet' = quiet
      /\ client' = [client EXCEPT ![c] = "in"] /\ client[c] = "away"
      /\ inbox' = Append(inbox, [who |-> c, end |-> "open"])
    BY DEF Join
<1>2. /\ seat \in [Clients -> Seats] /\ wire \in [Clients -> Wires] /\ slot \in Threads
      /\ inbox \in Seq(Joins) /\ quiet \in [Clients -> 0 .. Timeout + 1]
      /\ client \in [Clients -> {"in", "away", "gone", "left", "kicked"}]
    BY DEF IInv, TypeOK, Seats, Wires, Threads, Joins
<1>3. inbox' \in Seq(Joins)
    <2>1. [who |-> c, end |-> "open"] \in Joins
        BY DEF Joins, Ends
    <2> QED  BY <1>1, <1>2, <2>1, AppendProperties
<1>4. /\ client' \in [Clients -> {"in", "away", "gone", "left", "kicked"}]
      /\ \A d \in Clients : client[d] = "left" => client'[d] = "left"
    BY <1>1, <1>2
<1>5. SilenceOK' /\ OwnerStep
    BY <1>1 DEF IInv, SilenceOK, OwnerStep
<1>6. LeaveOK'
    BY <1>1, <1>4 DEF IInv, LeaveOK, Clients
<1> QED  BY <1>1, <1>2, <1>3, <1>4, <1>5, <1>6, WireSafe

\* A request changes nothing by itself.
LEMMA KickSafe ==
    ASSUME IInv, over.why = "no", NEW c \in Clients, Kick(c)
    PROVE  Safe
<1>1. /\ UNCHANGED <<plan, seat, wire, inbox, slot, client, quiet, age, over>>
      /\ kicks' = kicks \cup {c}
    BY DEF Kick
<1>2. TypeOK'
    BY <1>1 DEF IInv, TypeOK
<1>3. PlanOK' /\ SilenceOK' /\ LeaveOK' /\ EndsForCause'
    BY <1>1 DEF IInv, PlanOK, SilenceOK, LeaveOK, EndsForCause
<1>4. SilentStep /\ OwnerStep
    BY <1>1 DEF IInv, SilenceOK, SilentStep, OwnerStep
<1> QED  BY <1>2, <1>3, <1>4 DEF IInv, Safe

\* Time passes for a seat as it does for its client.
LEMMA TickSafe ==
    ASSUME IInv, over.why = "no", Tick
    PROVE  Safe
<1>1. /\ UNCHANGED <<plan, wire, inbox, slot, kicks, client, over>>
      /\ age' = UpTo(age, Startup)
      /\ quiet' = [c \in Clients |-> IF seat[c].at = "up" THEN UpTo(quiet[c], Timeout + 1) ELSE 0]
      /\ seat' = [c \in Clients |->
             CASE seat[c].at = "up" -> [seat[c] EXCEPT !.silent = UpTo(@, Timeout + 1)]
               [] seat[c].at = "down" -> [seat[c] EXCEPT !.away = UpTo(@, Grace)]
               [] OTHER -> seat[c]]
    BY DEF Tick
<1>2. /\ seat \in [Clients -> Seats] /\ quiet \in [Clients -> 0 .. Timeout + 1]
      /\ age \in 0 .. Startup
      /\ Timeout \in Nat /\ Grace \in Nat /\ Startup \in Nat
    BY MonitorAssumption DEF IInv, TypeOK, Seats
<1>3. ASSUME NEW max \in Nat, NEW n \in 0 .. max
      PROVE  UpTo(n, max) \in 0 .. max
    BY DEF UpTo
<1>4. ASSUME NEW max \in Nat, NEW n \in 0 .. max, NEW m \in 0 .. max, m <= n
      PROVE  UpTo(m, max) <= UpTo(n, max)
    <2>1. /\ UpTo(m, max) = IF m < max THEN m + 1 ELSE max
          /\ UpTo(n, max) = IF n < max THEN n + 1 ELSE max
        BY DEF UpTo
    <2>2. \A x, y, z \in Int : x <= y /\ y <= z =>
              (IF x < z THEN x + 1 ELSE z) <= (IF y < z THEN y + 1 ELSE z)
        OBVIOUS
    <2>3. m \in Int /\ n \in Int /\ max \in Int /\ n <= max
        OBVIOUS
    <2> QED  BY <1>4, <2>1, <2>2, <2>3
<1>5. Timeout + 1 \in Nat
    BY <1>2
<1>6. age' \in 0 .. Startup /\ quiet' \in [Clients -> 0 .. Timeout + 1]
    <2>1. age' \in 0 .. Startup
        BY <1>1, <1>2, <1>3
    <2>2. \A c \in Clients : UpTo(quiet[c], Timeout + 1) \in 0 .. Timeout + 1
        BY <1>2, <1>3, <1>5
    <2>3. 0 \in 0 .. Timeout + 1
        BY <1>2
    <2> QED  BY <1>1, <2>1, <2>2, <2>3
<1>7. ASSUME NEW c \in Clients
      PROVE  /\ seat'[c] \in Seats /\ seat'[c].at = seat[c].at /\ seat'[c].reason = seat[c].reason
             /\ seat[c].at = "up" => seat'[c].silent = UpTo(seat[c].silent, Timeout + 1)
    <2>1. CASE seat[c].at = "up"
        <3>1. seat'[c] = [seat[c] EXCEPT !.silent = UpTo(@, Timeout + 1)]
            BY <1>1, <2>1
        <3>2. UpTo(seat[c].silent, Timeout + 1) \in 0 .. Timeout + 1
            BY <1>2, <1>3, <1>5 DEF Seats
        <3> QED  BY <1>2, <3>1, <3>2 DEF Seats
    <2>2. CASE seat[c].at = "down"
        <3>1. seat'[c] = [seat[c] EXCEPT !.away = UpTo(@, Grace)]
            BY <1>1, <2>2
        <3>2. UpTo(seat[c].away, Grace) \in 0 .. Grace
            BY <1>2, <1>3 DEF Seats
        <3> QED  BY <1>2, <2>2, <3>1, <3>2 DEF Seats
    <2>3. CASE seat[c].at \notin {"up", "down"}
        <3>1. seat'[c] = seat[c]
            BY <1>1, <2>3
        <3> QED  BY <1>2, <2>3, <3>1
    <2> QED  BY <2>1, <2>2, <2>3
<1>8. seat' \in [Clients -> Seats]
    BY <1>1, <1>7
<1>9. PlanOK'
    BY <1>1, <1>7 DEF IInv, PlanOK
<1>10. TypeOK'
    <2>1. \A v \in Viewers : seat'[v].at # "down"
        BY <1>7 DEF IInv, TypeOK, Clients
    <2>2. \A c \in Clients : Contains(plan', c) <=> seat'[c].at # "out"
        BY <1>9 DEF PlanOK
    <2> QED  BY <1>1, <1>6, <1>8, <2>1, <2>2 DEF IInv, TypeOK, Seats
<1>11. SilenceOK'
    <2> SUFFICES ASSUME NEW c \in Clients, seat'[c].at = "up"
                 PROVE  /\ seat'[c].reason = ""
                        /\ "beat" \notin wire[c].sent => seat'[c].silent <= quiet'[c]
        BY <1>1 DEF SilenceOK
    <2>1. seat[c].at = "up" /\ seat'[c].reason = seat[c].reason
          /\ seat'[c].silent = UpTo(seat[c].silent, Timeout + 1)
          /\ quiet'[c] = UpTo(quiet[c], Timeout + 1)
        BY <1>1, <1>7
    <2>2. seat[c].reason = "" /\ ("beat" \notin wire[c].sent => seat[c].silent <= quiet[c])
        BY <2>1 DEF IInv, SilenceOK
    <2>3. seat[c].silent \in 0 .. Timeout + 1 /\ quiet[c] \in 0 .. Timeout + 1
        BY <1>2 DEF Seats
    <2> QED  BY <1>4, <1>5, <2>1, <2>2, <2>3
<1>12. LeaveOK' /\ EndsForCause'
    BY <1>1, <1>7, CauseKept DEF IInv, LeaveOK, Clients
<1>13. SilentStep
    BY <1>7 DEF IInv, SilenceOK, SilentStep
<1>14. OwnerStep
    BY <1>1 DEF OwnerStep
<1> QED  BY <1>9, <1>10, <1>11, <1>12, <1>13, <1>14 DEF IInv, Safe
\* A join that is attached takes a seat that is free, with a fresh connection.
LEMMA AttachSafe ==
    ASSUME IInv, over.why = "no", Attach
    PROVE  Safe
<1> DEFINE join == Head(slot.batch)
           c == join.who
<1>1. /\ slot.batch # <<>> /\ slot' = [slot EXCEPT !.batch = Tail(@)]
      /\ UNCHANGED <<kicks, age, over>> /\ inbox' = inbox
      /\ \/ /\ Attachable(c) /\ client' = client
            /\ plan' = IF c \in Viewers THEN Append(plan, c) ELSE plan
            /\ seat' = [seat EXCEPT ![c] = Up]
            /\ wire' = [wire EXCEPT ![c] = [sent |-> {}, end |-> join.end]]
            /\ quiet' = [quiet EXCEPT ![c] = 0]
         \/ /\ plan' = plan /\ seat' = seat /\ wire' = wire /\ quiet' = quiet
            /\ client' = IF join.end = "open" /\ client[c] = "in"
                         THEN [client EXCEPT ![c] = "away"] ELSE client
    BY DEF Attach
<1>2. /\ seat \in [Clients -> Seats] /\ wire \in [Clients -> Wires] /\ slot \in Threads
      /\ inbox \in Seq(Joins) /\ quiet \in [Clients -> 0 .. Timeout + 1]
      /\ client \in [Clients -> {"in", "away", "gone", "left", "kicked"}]
      /\ Timeout \in Nat
    BY MonitorAssumption DEF IInv, TypeOK, Seats, Wires, Threads, Joins
<1>3. slot.batch \in Seq(Joins)
    BY <1>2 DEF Threads
<1>4. join \in Joins /\ Tail(slot.batch) \in Seq(Joins)
    BY <1>1, <1>3, HeadTailProperties
<1>5. c \in Clients /\ join.end \in Ends
    BY <1>4 DEF Joins
<1>6. slot' \in Threads
    BY <1>1, <1>2, <1>4 DEF Threads
<1> HIDE DEF join, c
<1>7. CASE /\ Attachable(c) /\ client' = client
           /\ plan' = IF c \in Viewers THEN Append(plan, c) ELSE plan
           /\ seat' = [seat EXCEPT ![c] = Up]
           /\ wire' = [wire EXCEPT ![c] = [sent |-> {}, end |-> join.end]]
           /\ quiet' = [quiet EXCEPT ![c] = 0]
    <2>1. Up \in Seats /\ Up.at = "up" /\ Up.reason = "" /\ Up.silent = 0
        <3>1. 0 \in 0 .. Grace /\ 0 \in 0 .. Timeout + 1
            BY MonitorAssumption
        <3> QED  BY <3>1 DEF Up, Out, Seats, Reasons
    <2>2. [sent |-> {}, end |-> join.end] \in Wires
        BY <1>5 DEF Wires
    <2>3. /\ seat' \in [Clients -> Seats] /\ seat'[c] = Up
          /\ \A d \in Clients \ {c} : seat'[d] = seat[d]
        BY <1>2, <1>5, <1>7, <2>1
    <2>4. /\ wire' \in [Clients -> Wires] /\ wire'[c] = [sent |-> {}, end |-> join.end]
          /\ \A d \in Clients \ {c} : wire'[d] = wire[d]
        BY <1>2, <1>5, <1>7, <2>2
    <2>5. /\ quiet' \in [Clients -> 0 .. Timeout + 1] /\ quiet'[c] = 0
          /\ \A d \in Clients \ {c} : quiet'[d] = quiet[d]
        <3>1. 0 \in 0 .. Timeout + 1
            BY <1>2
        <3> QED  BY <1>2, <1>5, <1>7, <3>1
    <2>6. /\ c \in Players => seat[c].at = "down"
          /\ c \notin Players => seat[c].at = "out"
        BY <1>7 DEF Attachable
    <2>7. PlanOK'
        <3>1. /\ plan \in Seq(Clients) /\ IsInjective(plan)
              /\ \A d \in Clients : Contains(plan, d) <=> seat[d].at # "out"
            BY DEF IInv, PlanOK
        <3>2. CASE c \in Viewers
            <4>1. c \notin Players
                BY <3>2, MonitorAssumption
            <4>2. ~Contains(plan, c) /\ plan' = Append(plan, c)
                BY <1>5, <1>7, <2>6, <3>1, <3>2, <4>1
            <4>3. /\ plan' \in Seq(Clients) /\ IsInjective(plan')
                  /\ \A d : Contains(plan', d) <=> Contains(plan, d) \/ d = c
                BY <1>5, <3>1, <4>2, Appending
            <4> QED  BY <2>1, <2>3, <3>1, <4>3 DEF PlanOK
        <3>3. CASE c \notin Viewers
            <4>1. c \in Players /\ plan' = plan
                BY <1>5, <1>7, <3>3 DEF Clients
            <4> QED  BY <1>5, <2>1, <2>3, <2>6, <3>1, <4>1 DEF PlanOK
        <3> QED  BY <3>2, <3>3
    <2>8. TypeOK'
        <3>1. \A v \in Viewers : v \in Clients /\ seat[v].at # "down"
            BY DEF IInv, TypeOK, Clients
        <3>2. \A v \in Viewers : seat'[v].at # "down"
            BY <2>1, <2>3, <3>1
        <3>3. \A d \in Clients : Contains(plan', d) <=> seat'[d].at # "out"
            BY <2>7 DEF PlanOK
        <3>4. plan' \in Seq(Clients)
            BY <2>7 DEF PlanOK
        <3>5. kicks' \subseteq Clients /\ age' \in 0 .. Startup /\ over' \in Overs
            BY <1>1 DEF IInv, TypeOK, Overs
        <3> QED  BY <1>1, <1>2, <1>6, <1>7, <2>3, <2>4, <2>5, <3>2, <3>3, <3>4, <3>5
                 DEF TypeOK, Seats, Wires, Threads, Joins, Overs
    <2>9. SilenceOK'
        <3> SUFFICES ASSUME NEW d \in Clients, seat'[d].at = "up"
                     PROVE  /\ seat'[d].reason = ""
                            /\ "beat" \notin wire'[d].sent => seat'[d].silent <= quiet'[d]
            BY DEF SilenceOK
        <3>1. CASE d = c
            <4>1. seat'[d] = Up /\ quiet'[d] = 0 /\ 0 <= 0
                BY <2>3, <2>5, <3>1
            <4> QED  BY <2>1, <4>1
        <3>2. CASE d # c
            BY <2>3, <2>4, <2>5, <3>2 DEF IInv, SilenceOK
        <3> QED  BY <3>1, <3>2
    <2>10. LeaveOK'
        <3> SUFFICES ASSUME NEW p \in Players
                     PROVE  /\ "leave" \in wire'[p].sent => client'[p] = "left"
                            /\ seat'[p].at = "down" /\ seat'[p].reason = "left"
                               => client'[p] = "left"
            BY DEF LeaveOK
        <3>1. CASE p = c
            <4>1. seat'[p] = Up /\ wire'[p].sent = {}
                BY <2>3, <2>4, <3>1
            <4> QED  BY <2>1, <4>1
        <3>2. CASE p # c
            BY <1>7, <2>3, <2>4, <3>2 DEF IInv, LeaveOK, Clients
        <3> QED  BY <3>1, <3>2
    <2>11. seat[c].at # "up"
        BY <2>6
    <2>12. SilentStep
        BY <2>3, <2>11 DEF IInv, SilenceOK, SilentStep
    <2>13. OwnerStep
        BY <2>4, <2>11 DEF OwnerStep
    <2> QED  BY <1>1, <2>7, <2>8, <2>9, <2>10, <2>12, <2>13, CauseKept DEF IInv, Safe
<1>8. CASE /\ plan' = plan /\ seat' = seat /\ wire' = wire /\ quiet' = quiet
           /\ client' = IF join.end = "open" /\ client[c] = "in"
                        THEN [client EXCEPT ![c] = "away"] ELSE client
    <2>1. /\ client' \in [Clients -> {"in", "away", "gone", "left", "kicked"}]
          /\ \A d \in Clients : client[d] = "left" => client'[d] = "left"
        BY <1>2, <1>5, <1>8
    <2>2. SilenceOK' /\ OwnerStep
        BY <1>8 DEF IInv, SilenceOK, OwnerStep
    <2>3. LeaveOK'
        BY <1>8, <2>1 DEF IInv, LeaveOK, Clients
    <2> QED  BY <1>1, <1>2, <1>6, <1>8, <2>1, <2>2, <2>3, WireSafe
<1> QED  BY <1>1, <1>7, <1>8 DEF join, c
-----------------------------------------------------------------------------
(* The theorems. *)

\* The invariant holds at first.
LEMMA InitSafe ==
    ASSUME Init
    PROVE  IInv
<1>1. /\ plan \in Bijection(1 .. Cardinality(Players), Players)
      /\ seat = [c \in Clients |-> IF c \in Players THEN Up ELSE Out]
      /\ wire = [c \in Clients |-> [sent |-> {}, end |-> "open"]]
      /\ client = [c \in Clients |-> IF c \in Players THEN "in" ELSE "away"]
      /\ inbox = <<>> /\ slot = [pc |-> "drain", i |-> 1, batch |-> <<>>]
      /\ kicks = {} /\ quiet = [c \in Clients |-> 0] /\ age = 0
      /\ over = [why |-> "no", who |-> NoClient]
    BY DEF Init
<1>2. Out \in Seats /\ Up \in Seats /\ Out.at = "out" /\ Up.at = "up"
      /\ Up.reason = "" /\ Up.silent = 0
    <2>1. 0 \in 0 .. Grace /\ 0 \in 0 .. Timeout + 1
        BY MonitorAssumption
    <2> QED  BY <2>1 DEF Up, Out, Seats, Reasons
<1>3. Players \subseteq Clients /\ Viewers \subseteq Clients
    BY DEF Clients
<1>4. Cardinality(Players) \in Nat
    BY <1>3, FS_Subset, FS_CardinalityType, MonitorAssumption
<1>5. /\ plan \in [1 .. Cardinality(Players) -> Players]
      /\ \A m, n \in 1 .. Cardinality(Players) : plan[m] = plan[n] => m = n
      /\ \A p \in Players : \E n \in 1 .. Cardinality(Players) : plan[n] = p
    BY <1>1 DEF Bijection, Injection, Surjection, IsInjective
<1>6. plan \in Seq(Players) /\ DOMAIN plan = 1 .. Len(plan)
      /\ 1 .. Len(plan) = 1 .. Cardinality(Players)
    BY <1>4, <1>5, IsASeq
<1>7. plan \in Seq(Clients)
    BY <1>3, <1>6
<1>8. PlanOK
    <2>1. IsInjective(plan)
        BY <1>5, <1>6 DEF IsInjective
    <2>2. ASSUME NEW c \in Clients PROVE Contains(plan, c) <=> c \in Players
        <3>1. Contains(plan, c) <=> \E n \in 1 .. Len(plan) : plan[n] = c
            BY DEF Contains
        <3>2. \A n \in 1 .. Len(plan) : plan[n] \in Players
            BY <1>5, <1>6
        <3>3. c \in Players => \E n \in 1 .. Len(plan) : plan[n] = c
            BY <1>5, <1>6
        <3> QED  BY <3>1, <3>2, <3>3
    <2>3. \A c \in Clients : seat[c].at # "out" <=> c \in Players
        BY <1>1, <1>2
    <2> QED  BY <1>7, <2>1, <2>2, <2>3 DEF PlanOK
<1>9. TypeOK
    <2>1. seat \in [Clients -> Seats] /\ \A v \in Viewers : seat[v].at # "down"
        BY <1>1, <1>2, <1>3
    <2>2. wire \in [Clients -> Wires]
        BY <1>1 DEF Wires, Ends
    <2>3. <<>> \in Seq(Joins)
        BY EmptySeq
    <2>4. inbox \in Seq(Joins) /\ slot \in Threads
        BY <1>1, <2>3 DEF Threads
    <2>5. client \in [Clients -> {"in", "away", "gone", "left", "kicked"}]
        BY <1>1
    <2>6. quiet \in [Clients -> 0 .. Timeout + 1] /\ age \in 0 .. Startup
        BY <1>1, MonitorAssumption
    <2>7. kicks \subseteq Clients /\ over \in Overs
        BY <1>1 DEF Overs, Causes
    <2>8. \A c \in Clients : Contains(plan, c) <=> seat[c].at # "out"
        BY <1>8 DEF PlanOK
    <2> QED  BY <1>7, <2>1, <2>2, <2>4, <2>5, <2>6, <2>7, <2>8
             DEF TypeOK, Seats, Wires, Threads, Joins, Overs
<1>10. SilenceOK
    <2> SUFFICES ASSUME NEW c \in Clients, seat[c].at = "up"
                 PROVE  seat[c].reason = "" /\ seat[c].silent <= quiet[c]
        BY DEF SilenceOK
    <2>1. seat[c] = Up
        BY <1>1, <1>2
    <2>2. quiet[c] = 0 /\ 0 <= 0
        BY <1>1
    <2> QED  BY <1>2, <2>1, <2>2
<1>11. LeaveOK
    BY <1>1, <1>2, <1>3 DEF LeaveOK
<1>12. EndsForCause
    BY <1>1 DEF EndsForCause
<1> QED  BY <1>8, <1>9, <1>10, <1>11, <1>12 DEF IInv

\* Every step keeps the invariant, and gives up only the silent.
LEMMA StepSafe ==
    ASSUME IInv, [Next]_vars
    PROVE  IInv' /\ [SilentStep /\ OwnerStep]_vars
<1>1. CASE Next
    <2>1. over.why = "no"
        BY <1>1 DEF Next
    <2>2. ASSUME SlotStep PROVE Safe
        <3>1. ASSUME TakeInbox \/ StartPoll \/ PassKick \/ StartVisits \/ EndPoll PROVE Safe
            BY <2>1, <3>1, RoundSafe
        <3>2. ASSUME Attach PROVE Safe
            BY <2>1, <3>2, AttachSafe
        <3>3. ASSUME CarryOutKick PROVE Safe
            BY <2>1, <3>3, CarryOutKickSafe
        <3>4. ASSUME VisitReserved PROVE Safe
            BY <2>1, <3>4, VisitReservedSafe
        <3>5. ASSUME VisitLeave PROVE Safe
            BY <2>1, <3>5, VisitLeaveSafe
        <3>6. ASSUME VisitClosed \/ VisitSilent PROVE Safe
            BY <2>1, <3>6, VisitLostSafe
        <3>7. ASSUME VisitReset PROVE Safe
            BY <2>1, <3>7, StoppingSafe
        <3>8. ASSUME VisitHealthy PROVE Safe
            BY <2>1, <3>8, VisitHealthySafe
        <3> QED  BY <2>2, <3>1, <3>2, <3>3, <3>4, <3>5, <3>6, <3>7, <3>8 DEF SlotStep
    <2>3. ASSUME Stop PROVE Safe
        BY <2>1, <2>3, StoppingSafe
    <2>4. ASSUME NEW c \in Clients, ClientStep(c) PROVE Safe
        <3>1. ASSUME Beat(c) PROVE Safe
            BY <2>1, <3>1, BeatSafe
        <3>2. ASSUME Leave(c) PROVE Safe
            BY <2>1, <3>2, LeaveSafe
        <3>3. ASSUME Join(c) PROVE Safe
            BY <2>1, <3>3, JoinSafe
        <3>4. ASSUME Kick(c) PROVE Safe
            BY <2>1, <3>4, KickSafe
        <3>5. ASSUME NEW e \in Cuts, NEW next \in {"away", "gone"}, Vanish(c, e, next) PROVE Safe
            BY <2>1, <3>5, VanishSafe
        <3> QED  BY <2>4, <3>1, <3>2, <3>3, <3>4, <3>5 DEF ClientStep
    <2>5. ASSUME Tick PROVE Safe
        BY <2>1, <2>5, TickSafe
    <2> QED  BY <1>1, <2>2, <2>3, <2>4, <2>5 DEF Next, Safe
<1>2. CASE UNCHANGED vars
    <2>1. TypeOK' /\ PlanOK'
        BY <1>2 DEF IInv, TypeOK, PlanOK, vars
    <2>2. SilenceOK' /\ LeaveOK' /\ EndsForCause'
        BY <1>2 DEF IInv, SilenceOK, LeaveOK, EndsForCause, vars
    <2> QED  BY <1>2, <2>1, <2>2 DEF IInv
<1> QED  BY <1>1, <1>2

\* The plan and the seats agree, silence is never overrated, and a leave is on
\* record only of a player that left.
THEOREM MonitorInvariant == Spec => []IInv
<1>1. Init => IInv
    BY InitSafe
<1>2. IInv /\ [Next]_vars => IInv'
    BY StepSafe
<1> QED  BY <1>1, <1>2, PTL DEF Spec

\* The plan of the monitor holds exactly the clients that are seated or watch,
\* and no viewer ever has a reserved seat.
THEOREM TypeCorrect == Spec => []TypeOK
<1>1. IInv => TypeOK
    BY DEF IInv
<1> QED  BY <1>1, MonitorInvariant, PTL

\* A session ends over a player only for a leave, a kick or a whole grace.
THEOREM EndsAreCaused == Spec => []EndsForCause
<1>1. IInv => EndsForCause
    BY DEF IInv
<1> QED  BY <1>1, MonitorInvariant, PTL

\* However long its messages lie unread, no client that has sent a heartbeat within
\* the time-out is given up as silent.
THEOREM OnlyTheSilent == Spec => OnlySilentTimedOut
<1>1. IInv /\ [Next]_vars => [SilentStep]_vars
    BY StepSafe
<1> QED  BY <1>1, MonitorInvariant, PTL DEF Spec, OnlySilentTimedOut, SilentStep

\* However many joins of one player wait, its seat changes hands only after the
\* connection that held it has been given up.
THEOREM SeatsKept == Spec => NoTakeover
<1>1. IInv /\ [Next]_vars => [OwnerStep]_vars
    BY StepSafe
<1> QED  BY <1>1, MonitorInvariant, PTL DEF Spec, NoTakeover, OwnerStep

\* A session ends because of a viewer only by the error of a connection that was
\* reset.
ResetOnly ==
    over.who \in Viewers =>
        over.why = "error" /\ wire[over.who].end = "reset" /\ "reset" \in Cuts

\* Every step keeps that: no kick, leave, loss or silence of a viewer is an end.
LEMMA StepResetOnly ==
    ASSUME TypeOK, ResetOnly, Next
    PROVE  ResetOnly'
<1> USE MonitorAssumption DEF MonitorAssumption, Clients
<1>1. over.why = "no" /\ over.who \notin Viewers
    BY DEF Next, ResetOnly
<1>2. ASSUME over' = over
      PROVE  ResetOnly'
    BY <1>1, <1>2 DEF ResetOnly
<1>3. ASSUME NEW c \in Players, NEW why, End(why, c)
      PROVE  ResetOnly'
    BY <1>3 DEF ResetOnly, End
<1>4. AtVisit(Visiting) => Visiting \in Clients
    BY DEF AtVisit, Visiting, TypeOK
<1>5. CASE CarryOutKick
    BY <1>2, <1>3, <1>5 DEF CarryOutKick
<1>6. CASE VisitReserved
    <2>1. Visiting \in Players \/ over' = over
        BY <1>4, <1>6 DEF VisitReserved, TypeOK
    <2> QED  BY <1>2, <1>3, <1>6, <2>1 DEF VisitReserved
<1>7. CASE VisitLeave
    BY <1>2, <1>3, <1>7 DEF VisitLeave
<1>8. CASE VisitReset
    <2>1. /\ over' = [why |-> "error", who |-> Visiting] /\ wire' = wire
          /\ wire[Visiting].end = "reset" /\ Visiting \in Clients
        BY <1>4, <1>8 DEF VisitReset, Connected, End
    <2>2. wire[Visiting].end \in Ends
        BY <2>1 DEF TypeOK
    <2>3. "reset" \in Cuts
        BY <2>1, <2>2 DEF Ends
    <2> QED  BY <2>1, <2>3 DEF ResetOnly
<1>9. CASE Stop
    BY <1>9 DEF Stop, ResetOnly
<1>10. ASSUME \/ TakeInbox \/ Attach \/ StartPoll \/ PassKick \/ StartVisits \/ VisitClosed
              \/ VisitSilent \/ VisitHealthy \/ EndPoll \/ Tick
              \/ \E c \in Clients : ClientStep(c)
       PROVE  over' = over
    BY <1>10 DEF TakeInbox, Attach, StartPoll, PassKick, StartVisits, VisitClosed, VisitSilent,
           VisitHealthy, EndPoll, Tick, ClientStep, Beat, Leave, Join, Kick, Vanish
<1> QED
    BY <1>2, <1>5, <1>6, <1>7, <1>8, <1>9, <1>10 DEF Next, SlotStep

\* A reset connection is all that a viewer can end a session by: where connections
\* end by a close or go dead without a trace, no viewer ends one.
THEOREM OnlyResetsHarm ==
    ASSUME "reset" \notin Cuts
    PROVE  Spec => []ViewersHarmless
<1>1. Init => ResetOnly
    BY MonitorAssumption DEF Init, ResetOnly, MonitorAssumption, Clients
<1>2. TypeOK /\ ResetOnly /\ [Next]_vars => ResetOnly'
    <2>1. UNCHANGED vars /\ ResetOnly => ResetOnly'
        BY DEF vars, ResetOnly
    <2> QED  BY <2>1, StepResetOnly
<1>3. ResetOnly => ViewersHarmless
    BY DEF ResetOnly, ViewersHarmless
<1> QED  BY TypeCorrect, <1>1, <1>2, <1>3, PTL DEF Spec
=============================================================================
