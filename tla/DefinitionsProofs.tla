-------------------------- MODULE DefinitionsProofs --------------------------
(***************************************************************************)
(* Theorems about Definitions, for any slugs, outputs, processes, windows, *)
(* commits and faults; and about EventList, whose plans use the promoted   *)
(* definitions, for any files, requests, anchors and selection of events.  *)
(***************************************************************************)
EXTENDS Definitions, EventList, FiniteSetTheorems, SequenceTheorems, TLAPS

-----------------------------------------------------------------------------
(* Identifiers, rows and the row that stands. *)

LEMMA IdTypes ==
  /\ Default \in DefinitionIds /\ Managed \in DefinitionIds
  /\ ~IsUser(Default) /\ ~IsUser(Managed)
  /\ \A n \in Slugs, ms \in 1..MaxClock :
        /\ UserId(n, ms) \in DefinitionIds /\ IsUser(UserId(n, ms))
        /\ UserId(n, ms)[2] = n /\ UserId(n, ms)[3] = ms
BY DEF DefinitionIds, Default, Managed, UserId, IsUser

LEMMA UserIdParts ==
  ASSUME NEW id \in DefinitionIds, IsUser(id)
  PROVE  id[2] \in Slugs /\ id[3] \in 1..MaxClock
BY DEF DefinitionIds, Default, Managed, UserId, IsUser

LEMMA IdleType == Idle \in Request /\ Idle.pc = "idle" /\ Idle.row = NoRow /\ NoRow \in Definition /\ NoRow.at = 0
<1>1. NoRow \in Definition /\ NoRow.at = 0
  BY IdTypes, BoundsAssumption DEF NoRow, Row, Definition
<1>2. QED
  BY <1>1 DEF Idle, Request, Ends

LEMMA EarlierType == EarlierSeed \in Definition /\ EarlierSeed.at = 0 /\ EarlierSeed.id = Default
<1>1. 0 \in 0..MaxClock /\ 1 \in 0..MaxClock
  BY BoundsAssumption
<1>2. QED
  BY <1>1, IdTypes DEF EarlierSeed, Row, Definition

LEMMA KeyType ==
  ASSUME NEW d \in Definition
  PROVE  /\ Key(d) \in Keys /\ Key(d)[1] = d.id /\ Key(d)[2] = d.ver
         /\ d.id \in DefinitionIds /\ d.at \in 0..MaxClock /\ d.ver \in 0..MaxClock /\ d.deleted \in BOOLEAN
BY DEF Key, Keys, Definition

\* An active definition is a row that no other row replaces.
LEMMA ActiveRows ==
  ASSUME NEW rs \in Seq(Definition), NEW d \in Active(rs)
  PROVE  d \in Definition /\ ~d.deleted /\ \E i \in DOMAIN rs : rs[i] = d /\ Stands(rs, i)
<1>1. ~d.deleted /\ \E i \in DOMAIN rs : rs[i] = d /\ Stands(rs, i)
  BY DEF Active, Final
<1>2. \A i \in DOMAIN rs : rs[i] \in Definition
  OBVIOUS
<1>3. QED
  BY <1>1, <1>2

LEMMA ActiveIntro ==
  ASSUME NEW rs \in Seq(Definition), NEW i \in DOMAIN rs, Stands(rs, i), ~rs[i].deleted
  PROVE  rs[i] \in Active(rs)
BY DEF Active, Final

\* One more row: the rows before it that stand then stand now.
LEMMA Inserted ==
  ASSUME NEW rs \in Seq(Definition), NEW d \in Definition
  PROVE  /\ Append(rs, d) \in Seq(Definition) /\ Len(Append(rs, d)) = Len(rs) + 1
         /\ \A i \in DOMAIN rs : i \in DOMAIN Append(rs, d) /\ Append(rs, d)[i] = rs[i]
         /\ \A i \in DOMAIN Append(rs, d) : i \in DOMAIN rs \/ (i = Len(rs) + 1 /\ Append(rs, d)[i] = d)
         /\ Len(rs) + 1 \in DOMAIN Append(rs, d) /\ Append(rs, d)[Len(rs) + 1] = d
         /\ \A i \in DOMAIN rs : Stands(Append(rs, d), i) => Stands(rs, i)
<1> DEFINE new == Append(rs, d)
<1>1. /\ new \in Seq(Definition) /\ Len(new) = Len(rs) + 1 /\ Len(rs) \in Nat
      /\ DOMAIN new = 1 .. Len(rs) + 1 /\ DOMAIN rs = 1 .. Len(rs)
      /\ \A i \in 1 .. Len(rs) : new[i] = rs[i]
      /\ new[Len(rs) + 1] = d
  OBVIOUS
<1> HIDE DEF new
<1>2. \A i \in DOMAIN rs : i \in DOMAIN new /\ new[i] = rs[i]
  BY <1>1
<1>3. \A i \in DOMAIN rs : Stands(new, i) => Stands(rs, i)
  BY <1>2 DEF Stands
<1>4. \A i \in DOMAIN new : i \in DOMAIN rs \/ (i = Len(rs) + 1 /\ new[i] = d)
  BY <1>1
<1>5. QED
  BY <1>1, <1>2, <1>3, <1>4 DEF new

\* A row less, that another one replaced: the rows that stand are the same.
LEMMA Merged ==
  ASSUME NEW rs \in Seq(Definition), NEW i \in DOMAIN rs, ~Stands(rs, i)
  PROVE  /\ RemoveAt(rs, i) \in Seq(Definition) /\ Len(RemoveAt(rs, i)) <= Len(rs)
         /\ Active(RemoveAt(rs, i)) = Active(rs)
         /\ \A j \in DOMAIN RemoveAt(rs, i) : \E k \in DOMAIN rs : RemoveAt(rs, i)[j] = rs[k]
         /\ \A k \in DOMAIN rs : \E j \in DOMAIN RemoveAt(rs, i) : RemoveAt(rs, i)[j].id = rs[k].id
<1> DEFINE new == RemoveAt(rs, i)
<1>1. Len(rs) \in Nat /\ DOMAIN rs = 1 .. Len(rs) /\ i \in Nat /\ i >= 1 /\ i <= Len(rs)
  OBVIOUS
<1>2. /\ new \in Seq(Definition) /\ Len(new) = Len(rs) - 1 /\ DOMAIN new = 1 .. Len(rs) - 1
      /\ \A j \in 1 .. Len(rs) - 1 : new[j] = IF j < i THEN rs[j] ELSE rs[j + 1]
  <2> DEFINE left == SubSeq(rs, 1, i - 1)
             right == SubSeq(rs, i + 1, Len(rs))
  <2>1. left \in Seq(Definition) /\ Len(left) = i - 1 /\ \A j \in 1 .. i - 1 : left[j] = rs[j]
    <3>1. \A j \in 1 .. i - 1 : rs[j] \in Definition
      BY <1>1
    <3>2. left = [j \in 1 .. i - 1 |-> rs[j]]
      BY <1>1
    <3>3. QED
      BY <1>1, <3>1, <3>2
  <2>2. right \in Seq(Definition) /\ Len(right) = Len(rs) - i /\ \A j \in 1 .. Len(rs) - i : right[j] = rs[i + j]
    <3>1. \A j \in i + 1 .. Len(rs) : rs[j] \in Definition
      BY <1>1
    <3>2. /\ right \in Seq(Definition) /\ Len(right) = (IF i + 1 <= Len(rs) THEN Len(rs) - (i + 1) + 1 ELSE 0)
          /\ \A j \in 1 .. Len(rs) - (i + 1) + 1 : right[j] = rs[i + 1 + j - 1]
      BY <1>1, <3>1, SubSeqProperties
    <3>3. Len(rs) - (i + 1) + 1 = Len(rs) - i /\ \A j \in 1 .. Len(rs) - i : i + 1 + j - 1 = i + j
      BY <1>1
    <3>4. QED
      BY <1>1, <3>2, <3>3
  <2>3. new = left \o right
    BY DEF RemoveAt
  <2> HIDE DEF left, right, new
  <2>4. /\ new \in Seq(Definition) /\ Len(new) = Len(rs) - 1 /\ DOMAIN new = 1 .. Len(rs) - 1
        /\ \A j \in 1 .. i - 1 : new[j] = left[j]
        /\ \A j \in 1 .. Len(rs) - i : new[i - 1 + j] = right[j]
    <3>1. /\ new \in Seq(Definition) /\ Len(new) = Len(left) + Len(right)
          /\ \A j \in 1 .. Len(left) : new[j] = left[j]
          /\ \A j \in 1 .. Len(right) : new[Len(left) + j] = right[j]
      <4>1. /\ left \o right \in Seq(Definition) /\ Len(left \o right) = Len(left) + Len(right)
            /\ \A j \in 1 .. Len(left) + Len(right) :
                 (left \o right)[j] = IF j <= Len(left) THEN left[j] ELSE right[j - Len(left)]
        BY <2>1, <2>2, ConcatProperties
      <4>2. Len(left) \in Nat /\ Len(right) \in Nat
        BY <2>1, <2>2
      <4>3. \A j \in 1 .. Len(left) : j \in 1 .. Len(left) + Len(right) /\ j <= Len(left)
        BY <4>2
      <4>4. \A j \in 1 .. Len(right) : /\ Len(left) + j \in 1 .. Len(left) + Len(right) /\ ~(Len(left) + j <= Len(left))
                                        /\ Len(left) + j - Len(left) = j
        BY <4>2
      <4>5. QED
        BY <2>3, <4>1, <4>3, <4>4
    <3>2. Len(new) = Len(rs) - 1 /\ DOMAIN new = 1 .. Len(new)
      BY <1>1, <2>1, <2>2, <3>1
    <3>3. QED
      BY <2>1, <2>2, <3>1, <3>2
  <2>5. ASSUME NEW j \in 1 .. Len(rs) - 1 PROVE new[j] = IF j < i THEN rs[j] ELSE rs[j + 1]
    <3>1. CASE j < i
      <4>1. j \in 1 .. i - 1
        BY <1>1, <3>1
      <4>2. QED
        BY <2>1, <2>4, <3>1, <4>1
    <3>2. CASE ~(j < i)
      <4>1. PICK l \in 1 .. Len(rs) - i : l = j - (i - 1)
        BY <1>1, <3>2
      <4>2. i - 1 + l = j /\ i + l = j + 1
        BY <1>1, <4>1
      <4>3. QED
        BY <2>2, <2>4, <3>2, <4>2
    <3>3. QED
      BY <3>1, <3>2
  <2>6. QED
    BY <2>4, <2>5
<1> HIDE DEF new
<1> DEFINE old(j) == IF j < i THEN j ELSE j + 1
<1>3. ASSUME NEW j \in DOMAIN new PROVE old(j) \in DOMAIN rs /\ old(j) # i /\ new[j] = rs[old(j)]
  BY <1>1, <1>2, <1>3
<1>4. ASSUME NEW k \in DOMAIN rs, k # i PROVE \E j \in DOMAIN new : old(j) = k
  <2>1. CASE k < i
    <3>1. k \in DOMAIN new /\ old(k) = k
      BY <1>1, <1>2, <2>1
    <3>2. QED
      BY <3>1
  <2>2. CASE ~(k < i)
    <3>1. k - 1 \in DOMAIN new /\ old(k - 1) = k
      BY <1>1, <1>2, <1>4, <2>2
    <3>2. QED
      BY <3>1
  <2>3. QED
    BY <2>1, <2>2
<1>5. \A j, k \in DOMAIN new : j <= k <=> old(j) <= old(k)
  BY <1>1, <1>2
<1> HIDE DEF old
<1>6. PICK m \in DOMAIN rs : rs[m].id = rs[i].id /\ ~(rs[m].at < rs[i].at \/ (rs[m].at = rs[i].at /\ m <= i))
  BY DEF Stands
<1>7. m # i /\ \A k \in DOMAIN rs : rs[k].at \in Nat /\ rs[k] \in Definition
  <2>1. \A k \in DOMAIN rs : rs[k] \in Definition
    OBVIOUS
  <2>2. \A k \in DOMAIN rs : rs[k].at \in Nat
    BY <2>1 DEF Definition
  <2>3. QED
    BY <1>1, <1>6, <2>1, <2>2
<1>8. ASSUME NEW j \in DOMAIN new PROVE Stands(new, j) <=> Stands(rs, old(j))
  <2>1. ASSUME Stands(rs, old(j)) PROVE Stands(new, j)
    <3>1. SUFFICES ASSUME NEW k \in DOMAIN new, new[k].id = new[j].id
                   PROVE  new[k].at < new[j].at \/ (new[k].at = new[j].at /\ k <= j)
      BY DEF Stands
    <3>2. rs[old(k)].at < rs[old(j)].at \/ (rs[old(k)].at = rs[old(j)].at /\ old(k) <= old(j))
      BY <1>3, <2>1, <3>1 DEF Stands
    <3>3. QED
      BY <1>3, <1>5, <3>2
  <2>2. ASSUME Stands(new, j) PROVE Stands(rs, old(j))
    <3>1. \A k \in DOMAIN rs : k # i /\ rs[k].id = rs[old(j)].id =>
             rs[k].at < rs[old(j)].at \/ (rs[k].at = rs[old(j)].at /\ k <= old(j))
      <4>1. SUFFICES ASSUME NEW k \in DOMAIN rs, k # i, rs[k].id = rs[old(j)].id
                     PROVE  rs[k].at < rs[old(j)].at \/ (rs[k].at = rs[old(j)].at /\ k <= old(j))
        OBVIOUS
      <4>2. PICK l \in DOMAIN new : old(l) = k
        BY <1>4, <4>1
      <4>3. new[l].at < new[j].at \/ (new[l].at = new[j].at /\ l <= j)
        BY <1>3, <2>2, <4>1, <4>2 DEF Stands
      <4>4. QED
        BY <1>3, <1>5, <4>2, <4>3
    <3>2. rs[i].id = rs[old(j)].id => rs[i].at < rs[old(j)].at \/ (rs[i].at = rs[old(j)].at /\ i <= old(j))
      <4>1. SUFFICES ASSUME rs[i].id = rs[old(j)].id
                     PROVE  rs[i].at < rs[old(j)].at \/ (rs[i].at = rs[old(j)].at /\ i <= old(j))
        OBVIOUS
      <4>2. rs[m].at < rs[old(j)].at \/ (rs[m].at = rs[old(j)].at /\ m <= old(j))
        BY <1>6, <1>7, <3>1, <4>1
      <4>3. old(j) \in Nat /\ m \in Nat
        BY <1>1, <1>3
      <4>4. QED
        BY <1>1, <1>3, <1>6, <1>7, <4>2, <4>3
    <3>3. QED
      BY <3>1, <3>2 DEF Stands
  <2>3. QED
    BY <2>1, <2>2
<1>9. Active(new) = Active(rs)
  <2>1. ASSUME NEW d \in Active(new) PROVE d \in Active(rs)
    <3>1. PICK j \in DOMAIN new : new[j] = d /\ Stands(new, j) /\ ~d.deleted
      BY <1>2, <2>1, ActiveRows
    <3>2. QED
      BY <1>3, <1>8, <3>1, ActiveIntro
  <2>2. ASSUME NEW d \in Active(rs) PROVE d \in Active(new)
    <3>1. PICK k \in DOMAIN rs : rs[k] = d /\ Stands(rs, k) /\ ~d.deleted
      BY <2>2, ActiveRows
    <3>2. PICK j \in DOMAIN new : old(j) = k
      BY <1>4, <3>1
    <3>3. QED
      BY <1>2, <1>3, <1>8, <3>1, <3>2, ActiveIntro
  <2>3. QED
    BY <2>1, <2>2
<1>10. \A k \in DOMAIN rs : \E j \in DOMAIN new : new[j].id = rs[k].id
  <2>1. ASSUME NEW k \in DOMAIN rs PROVE \E l \in DOMAIN rs : l # i /\ rs[l].id = rs[k].id
    BY <1>6, <1>7
  <2>2. ASSUME NEW l \in DOMAIN rs, l # i PROVE \E j \in DOMAIN new : new[j] = rs[l]
    BY <1>3, <1>4, <2>2
  <2>3. SUFFICES ASSUME NEW k \in DOMAIN rs PROVE \E j \in DOMAIN new : new[j].id = rs[k].id
    OBVIOUS
  <2>4. PICK l \in DOMAIN rs : l # i /\ rs[l].id = rs[k].id
    BY <2>1
  <2>5. PICK j \in DOMAIN new : new[j] = rs[l]
    BY <2>2, <2>4
  <2>6. QED
    BY <2>4, <2>5
<1>11. \A j \in DOMAIN new : \E k \in DOMAIN rs : new[j] = rs[k]
  BY <1>3
<1>12. QED
  BY <1>1, <1>2, <1>9, <1>10, <1>11 DEF new

-----------------------------------------------------------------------------
(* Type correctness. *)

LEMMA OutputsType ==
  ASSUME NEW n \in Slugs
  PROVE  Outputs[n] \in Seq(OutputNames) /\ Range(Outputs[n]) \subseteq OutputNames
<1>1. Range(Outputs[n]) \subseteq OutputNames
  BY DEF OutputNames
<1>2. QED
  BY <1>1, OutputsAssumption

LEMMA InitType == Init => TypeOK
<1> SUFFICES ASSUME Init PROVE TypeOK
  OBVIOUS
<1>1. req \in [Requests -> Request] /\ \A r \in Requests : req[r].row.at <= clock
  BY IdleType DEF Init
<1>2. pass \in Pass
  BY DEF Init, NoPass, Pass
<1>3. query \in PathQuery
  <2>1. <<Default, 0>> \in Keys
    BY IdTypes, BoundsAssumption DEF Keys
  <2>2. QED
    BY <2>1 DEF Init, NoQuery, PathQuery, Ends
<1>4. /\ rows \in Seq(Definition) /\ Len(rows) <= inserted /\ inserted \in 0..MaxRows
      /\ \A i \in DOMAIN rows : rows[i].at <= clock
  <2>1. CASE rows = <<>>
    BY <2>1, BoundsAssumption DEF Init
  <2>2. CASE rows = <<EarlierSeed>>
    <3>1. rows \in Seq(Definition) /\ Len(rows) = 1 /\ \A i \in DOMAIN rows : rows[i] = EarlierSeed
      BY <2>2, EarlierType
    <3>2. clock = 1 /\ inserted = 1
      BY <3>1 DEF Init
    <3>3. QED
      BY <3>1, <3>2, EarlierType, BoundsAssumption
  <2>3. QED
    BY <2>1, <2>2 DEF Init
<1>5. QED
  BY <1>1, <1>2, <1>3, <1>4, BoundsAssumption DEF Init, NoPass, TypeOK

\* A row is inserted.
LEMMA InsertType ==
  ASSUME TypeOK, NEW d \in Definition, d.at <= clock, Insert(d)
  PROVE  /\ inserted' \in 0..MaxRows /\ rows' \in Seq(Definition) /\ Len(rows') <= inserted'
         /\ \A i \in DOMAIN rows' : rows'[i].at <= clock
<1>1. rows \in Seq(Definition) /\ Len(rows) \in Nat /\ inserted \in 0..MaxRows /\ Len(rows) <= inserted
      /\ \A i \in DOMAIN rows : rows[i].at <= clock
  BY DEF TypeOK
<1>2. inserted < MaxRows /\ inserted' = inserted + 1 /\ rows' = Append(rows, d)
  BY DEF Insert
<1>3. /\ rows' \in Seq(Definition) /\ Len(rows') = Len(rows) + 1
      /\ \A i \in DOMAIN rows' : rows'[i] = d \/ (i \in DOMAIN rows /\ rows'[i] = rows[i])
  BY <1>1, <1>2, Inserted
<1>4. QED
  BY <1>1, <1>2, <1>3, BoundsAssumption

\* A request takes a step.
LEMMA GotoType ==
  ASSUME TypeOK, NEW r \in Requests, NEW q \in Request, q.row.at <= clock, Goto(r, q)
  PROVE  req' \in [Requests -> Request] /\ \A t \in Requests : req'[t].row.at <= clock
BY DEF Goto, TypeOK

LEMMA RaceType ==
  ASSUME TypeOK, NEW d \in Definition
  PROVE  Race(d) \subseteq Keys /\ missed \subseteq Race(d)
BY KeyType DEF Race, TypeOK

LEMMA AskType == TypeOK /\ Ask => asked' \in 0..MaxAsked
BY BoundsAssumption DEF TypeOK, Ask

LEMMA FaultType == TypeOK /\ Fault => faults' \in 0..MaxFaults
BY BoundsAssumption DEF TypeOK, Fault

\* The serving plane has its types if only the rest changed.
LEMMA TableStepType ==
  ASSUME TypeOK, UNCHANGED <<clock, cache, lake, serving, pass, query>>,
         asked' \in 0..MaxAsked, inserted' \in 0..MaxRows, rows' \in Seq(Definition), Len(rows') <= inserted',
         \A i \in DOMAIN rows' : rows'[i].at <= clock,
         req' \in [Requests -> Request], \A t \in Requests : req'[t].row.at <= clock,
         marks' \subseteq [key : Keys, low : Ends, high : Ends], missed' \subseteq Keys,
         faults' \in 0..MaxFaults
  PROVE  TypeOK'
BY DEF TypeOK, serving

LEMMA RequestParts ==
  ASSUME TypeOK, NEW r \in Requests
  PROVE  /\ req[r] \in Request /\ req[r].row \in Definition /\ req[r].row.at <= clock
         /\ req[r].outputs \in Seq(OutputNames) /\ req[r].low \in Ends
         /\ req[r].high \in Ends /\ req[r].fill \in BOOLEAN
BY DEF TypeOK, Request

LEMMA ClockType == TypeOK => clock \in 0..MaxClock /\ clock \in 1..MaxClock
BY BoundsAssumption DEF TypeOK

LEMMA SameTable ==
  ASSUME TypeOK, UNCHANGED table
  PROVE  /\ inserted' \in 0..MaxRows /\ rows' \in Seq(Definition) /\ Len(rows') <= inserted'
         /\ \A i \in DOMAIN rows' : rows'[i].at <= clock
BY DEF TypeOK, table

\* The request of an API process at its start: what it will insert or fill.
LEMMA RequestStarts ==
  ASSUME TypeOK, NEW d \in Definition, NEW win \in Windows, NEW n \in Slugs, NEW b \in BOOLEAN,
         NEW pc \in {"create", "fill", "deleting", "seed"}
  PROVE  /\ [pc |-> pc, row |-> d, fill |-> b, low |-> win[1], high |-> win[2], outputs |-> Outputs[n]] \in Request
         /\ [Idle EXCEPT !.pc = pc, !.row = d] \in Request
<1>1. win[1] \in Times /\ win[2] \in Times
  BY TimesAssumption
<1>2. Outputs[n] \in Seq(OutputNames)
  BY OutputsType
<1>3. [pc |-> pc, row |-> d, fill |-> b, low |-> win[1], high |-> win[2], outputs |-> Outputs[n]] \in Request
  BY <1>1, <1>2 DEF Request, Ends
<1>4. [Idle EXCEPT !.pc = pc, !.row = d] \in Request
  BY IdleType DEF Request
<1>5. QED
  BY <1>3, <1>4

LEMMA StartType ==
  ASSUME TypeOK, NEW r \in Requests, NEW q \in Request, q.row.at <= clock, Goto(r, q), Ask,
         UNCHANGED <<clock, table, marks, missed, faults>>, NoServing
  PROVE  TypeOK'
<1>1. req' \in [Requests -> Request] /\ \A t \in Requests : req'[t].row.at <= clock
  BY GotoType
<1>2. asked' \in 0..MaxAsked
  BY AskType
<1>3. /\ inserted' \in 0..MaxRows /\ rows' \in Seq(Definition) /\ Len(rows') <= inserted'
      /\ \A i \in DOMAIN rows' : rows'[i].at <= clock
  BY SameTable
<1>4. /\ marks' \subseteq [key : Keys, low : Ends, high : Ends] /\ missed' \subseteq Keys /\ faults' \in 0..MaxFaults
  BY DEF TypeOK
<1>5. QED
  BY <1>1, <1>2, <1>3, <1>4, TableStepType DEF NoServing

LEMMA ApiType ==
  ASSUME TypeOK, NEW r \in Requests, Api(r)
  PROVE  TypeOK'
<1>1. clock \in 0..MaxClock /\ clock \in 1..MaxClock
  BY ClockType
<1>2. rows \in Seq(Definition) /\ req \in [Requests -> Request] /\ marks \subseteq [key : Keys, low : Ends, high : Ends]
      /\ missed \subseteq Keys /\ faults \in 0..MaxFaults /\ asked \in 0..MaxAsked /\ clock \in Nat
      /\ \A i \in DOMAIN rows : rows[i].at <= clock
  BY <1>1, BoundsAssumption DEF TypeOK
<1>3. /\ req[r] \in Request /\ req[r].row \in Definition /\ req[r].row.at <= clock
      /\ req[r].outputs \in Seq(OutputNames) /\ req[r].low \in Ends
      /\ req[r].high \in Ends /\ req[r].fill \in BOOLEAN
  BY RequestParts
<1>4. Idle \in Request /\ Idle.row.at <= clock
  BY <1>1, IdleType
<1>5. ASSUME NEW n \in Slugs, NEW fill \in BOOLEAN, NEW win \in Windows, Create(r, n, fill, win) PROVE TypeOK'
  <2>0. PICK now \in 1..clock :
          Goto(r, [pc |-> "create", row |-> Row(UserId(n, clock), FALSE, now, clock), fill |-> fill,
                   low |-> win[1], high |-> win[2], outputs |-> Outputs[n]])
    BY <1>5 DEF Create
  <2> DEFINE d == Row(UserId(n, clock), FALSE, now, clock)
             q == [pc |-> "create", row |-> d, fill |-> fill, low |-> win[1], high |-> win[2], outputs |-> Outputs[n]]
  <2>1. d \in Definition /\ d.at <= clock
    <3>1. now \in 0..MaxClock /\ now <= clock
      BY <1>1, <2>0, BoundsAssumption
    <3>2. QED
      BY <1>1, <3>1, IdTypes DEF Row, Definition
  <2>2. q \in Request /\ q.row = d
    BY <2>1, RequestStarts
  <2>3. Goto(r, q) /\ Ask /\ UNCHANGED <<clock, table, marks, missed, faults>> /\ NoServing
    BY <1>5, <2>0 DEF Create
  <2> HIDE DEF d, q
  <2>4. QED
    BY <1>2, <2>1, <2>2, <2>3, StartType
<1>6. ASSUME NEW id \in Ids, Delete(r, id) PROVE TypeOK'
  <2> DEFINE d == Row(id, TRUE, clock, clock)
             q == [Idle EXCEPT !.pc = "deleting", !.row = d]
  <2>1. id \in DefinitionIds
    BY <1>2, <1>6, KeyType DEF Ids
  <2>2. d \in Definition /\ d.at = clock
    BY <1>1, <2>1 DEF Row, Definition
  <2>3. q \in Request /\ q.row = d
    BY <2>2, IdleType DEF Request
  <2>4. Goto(r, q) /\ Ask /\ UNCHANGED <<clock, table, marks, missed, faults>> /\ NoServing
    BY <1>6 DEF Delete
  <2> HIDE DEF d, q
  <2>5. QED
    BY <1>2, <2>2, <2>3, <2>4, StartType
<1>7. CASE Seed(r)
  <2> DEFINE d == Row(Default, FALSE, clock, 1)
             q == [Idle EXCEPT !.pc = "seed", !.row = d]
  <2>1. d \in Definition /\ d.at = clock
    <3>1. 1 \in 0..MaxClock
      BY BoundsAssumption
    <3>2. QED
      BY <1>1, <3>1, IdTypes DEF Row, Definition
  <2>2. q \in Request /\ q.row = d
    BY <2>1, IdleType DEF Request
  <2>3. Goto(r, q) /\ Ask /\ UNCHANGED <<clock, table, marks, missed, faults>> /\ NoServing
    BY <1>7 DEF Seed
  <2> HIDE DEF d, q
  <2>4. QED
    BY <1>2, <2>1, <2>2, <2>3, StartType
<1>8. ASSUME NEW win \in Windows, Backfill(r, win) PROVE TypeOK'
  <2>1. PICK d \in Active(rows) :
          /\ IsUser(d.id)
          /\ Goto(r, [pc |-> "fill", row |-> d, fill |-> TRUE, low |-> win[1], high |-> win[2],
                      outputs |-> Outputs[d.id[2]]])
    BY <1>8 DEF Backfill
  <2>2. d \in Definition /\ d.at <= clock /\ d.id[2] \in Slugs
    <3>1. d \in Definition /\ d.at <= clock
      BY <1>2, ActiveRows
    <3>2. QED
      BY <2>1, <3>1, KeyType, UserIdParts
  <2> DEFINE q == [pc |-> "fill", row |-> d, fill |-> TRUE, low |-> win[1], high |-> win[2],
                   outputs |-> Outputs[d.id[2]]]
  <2>3. q \in Request /\ q.row = d
    BY <2>2, RequestStarts
  <2>4. Goto(r, q) /\ Ask /\ UNCHANGED <<clock, table, marks, missed, faults>> /\ NoServing
    BY <1>8, <2>1 DEF Backfill
  <2> HIDE DEF q
  <2>5. QED
    BY <2>2, <2>3, <2>4, StartType
<1>9. ASSUME NEW d \in Definition, d.at <= clock, Insert(d), NEW q \in Request, q.row.at <= clock, Goto(r, q),
             missed' \in {missed, Race(d)}, marks' \subseteq [key : Keys, low : Ends, high : Ends],
             UNCHANGED <<clock, asked, faults>>, NoServing
      PROVE  TypeOK'
  <2>1. req' \in [Requests -> Request] /\ \A t \in Requests : req'[t].row.at <= clock
    BY <1>9, GotoType
  <2>2. /\ inserted' \in 0..MaxRows /\ rows' \in Seq(Definition) /\ Len(rows') <= inserted'
        /\ \A i \in DOMAIN rows' : rows'[i].at <= clock
    BY <1>9, InsertType
  <2>3. missed' \subseteq Keys
    BY <1>2, <1>9, RaceType
  <2>4. asked' \in 0..MaxAsked /\ faults' \in 0..MaxFaults
    BY <1>2, <1>9
  <2>5. QED
    BY <1>9, <2>1, <2>2, <2>3, <2>4, TableStepType DEF NoServing
<1>10. CASE InsertCreated(r)
  <2>1. PICK q \in Request : Goto(r, q) /\ q.row.at <= clock
    <3>1. [req[r] EXCEPT !.pc = "fill"] \in Request /\ [req[r] EXCEPT !.pc = "fill"].row = req[r].row
      BY <1>3 DEF Request
    <3>2. Goto(r, [req[r] EXCEPT !.pc = "fill"]) \/ Goto(r, Idle)
      BY <1>10 DEF InsertCreated
    <3>3. QED
      BY <1>3, <1>4, <3>1, <3>2
  <2>2. /\ Insert(req[r].row) /\ missed' = Race(req[r].row) /\ UNCHANGED <<clock, asked, marks, faults>> /\ NoServing
    BY <1>10 DEF InsertCreated
  <2>3. QED
    BY <1>2, <1>3, <1>9, <2>1, <2>2
<1>11. CASE InsertDeleted(r) \/ InsertSeeded(r)
  <2>1. /\ Insert(req[r].row) /\ Goto(r, Idle) /\ UNCHANGED <<clock, asked, marks, missed, faults>> /\ NoServing
    BY <1>11 DEF InsertDeleted, InsertSeeded, Done
  <2>2. QED
    BY <1>2, <1>3, <1>4, <1>9, <2>1
<1>12. ASSUME NEW q \in Request, q.row.at <= clock, Goto(r, q), marks' \subseteq [key : Keys, low : Ends, high : Ends],
              faults' \in 0..MaxFaults, UNCHANGED <<clock, table, asked, missed>>, NoServing
       PROVE  TypeOK'
  <2>1. req' \in [Requests -> Request] /\ \A t \in Requests : req'[t].row.at <= clock
    BY <1>12, GotoType
  <2>2. /\ inserted' \in 0..MaxRows /\ rows' \in Seq(Definition) /\ Len(rows') <= inserted'
        /\ \A i \in DOMAIN rows' : rows'[i].at <= clock
    BY <1>12, SameTable
  <2>3. asked' \in 0..MaxAsked /\ missed' \subseteq Keys
    BY <1>2, <1>12
  <2>4. QED
    BY <1>12, <2>1, <2>2, <2>3, TableStepType DEF NoServing
<1>13. CASE ReadSeeded(r)
  <2>1. PICK q \in Request : Goto(r, q) /\ q.row.at <= clock
    <3>1. [req[r] EXCEPT !.pc = "seeding"] \in Request /\ [req[r] EXCEPT !.pc = "seeding"].row = req[r].row
      BY <1>3 DEF Request
    <3>2. Goto(r, [req[r] EXCEPT !.pc = "seeding"]) \/ Goto(r, Idle)
      BY <1>13 DEF ReadSeeded
    <3>3. QED
      BY <1>3, <1>4, <3>1, <3>2
  <2>2. UNCHANGED <<clock, table, asked, marks, missed, faults>> /\ NoServing
    BY <1>13 DEF ReadSeeded
  <2>3. QED
    BY <1>2, <1>12, <2>1, <2>2
<1>14. CASE MarkFilled(r)
  <2>1. /\ req[r].pc = "fill" /\ Goto(r, Idle) /\ UNCHANGED <<clock, table, asked, missed, faults>> /\ NoServing
        /\ marks' = marks \union {[key |-> Key(req[r].row), low |-> req[r].low, high |-> req[r].high]}
    BY <1>14 DEF MarkFilled, Done
  <2>2. marks' \subseteq [key : Keys, low : Ends, high : Ends]
    BY <1>2, <1>3, <2>1, KeyType
  <2>3. QED
    BY <1>2, <1>4, <1>12, <2>1, <2>2
<1>15. CASE Fail(r)
  <2>1. /\ Fault /\ Goto(r, Idle) /\ UNCHANGED <<clock, table, asked, marks, missed>> /\ NoServing
    BY <1>15 DEF Fail, Done
  <2>2. QED
    BY <1>2, <1>4, <1>12, <2>1, FaultType
<1>16. CASE FillOutput(r)
  <2> DEFINE q == req[r]
             new == {[commit |-> n, key |-> Key(q.row), output |-> Head(q.outputs)] :
                        n \in {m \in events : InWindow(m, q.low, q.high)}}
             next == [q EXCEPT !.outputs = Tail(@)]
  <2>1. /\ q.outputs # <<>> /\ index' = index \union new /\ Goto(r, next)
        /\ UNCHANGED <<clock, table, asked, cache, lake, events, tokens, recorded, served, pass, marks, query, missed,
                       faults>>
    BY <1>16 DEF FillOutput
  <2>2. Head(q.outputs) \in OutputNames /\ Tail(q.outputs) \in Seq(OutputNames)
    BY <1>3, <2>1
  <2>3. next \in Request /\ next.row = q.row
    BY <1>3, <2>2 DEF Request
  <2>4. Key(q.row) \in Keys
    BY <1>3, KeyType
  <2>5. new \subseteq [commit : events, key : Keys, output : OutputNames]
    BY <2>2, <2>4
  <2> HIDE DEF new, next
  <2>6. req' \in [Requests -> Request] /\ \A t \in Requests : req'[t].row.at <= clock
    BY <1>3, <2>1, <2>3, GotoType
  <2>7. index' \subseteq [commit : events, key : Keys, output : OutputNames]
    BY <2>1, <2>5 DEF TypeOK
  <2>8. QED
    BY <2>1, <2>6, <2>7 DEF TypeOK, table
<1>17. CASE StampDeleted(r)
  <2>1. PICK now \in req[r].row.at..clock :
          Goto(r, [req[r] EXCEPT !.pc = "delete", !.row = Row(req[r].row.id, TRUE, now, clock)])
    BY <1>17 DEF StampDeleted
  <2> DEFINE d == Row(req[r].row.id, TRUE, now, clock)
             q == [req[r] EXCEPT !.pc = "delete", !.row = d]
  <2>2. d \in Definition /\ d.at <= clock
    <3>1. req[r].row.id \in DefinitionIds /\ req[r].row.at \in 0..MaxClock
      BY <1>3, KeyType
    <3>2. now \in 0..MaxClock /\ now <= clock
      BY <1>1, <2>1, <3>1, BoundsAssumption
    <3>3. QED
      BY <1>1, <3>1, <3>2 DEF Row, Definition
  <2>3. q \in Request /\ q.row = d
    BY <1>3, <2>2 DEF Request
  <2>4. UNCHANGED <<clock, table, asked, marks, missed, faults>> /\ NoServing
    BY <1>17 DEF StampDeleted
  <2>5. Goto(r, q)
    BY <2>1
  <2> HIDE DEF d, q
  <2>6. QED
    BY <1>2, <1>12, <2>2, <2>3, <2>4, <2>5
<1>18. QED
  BY <1>5, <1>6, <1>7, <1>8, <1>10, <1>11, <1>13, <1>14, <1>15, <1>16, <1>17 DEF Api

LEMMA WorkersType ==
  ASSUME TypeOK, NEW w \in Workers, EnsureManaged(w) \/ RestartWorker(w)
  PROVE  TypeOK'
<1>1. CASE EnsureManaged(w)
  <2> DEFINE d == Row(Managed, FALSE, clock, clock)
  <2>1. d \in Definition /\ d.at <= clock
    BY ClockType, IdTypes, BoundsAssumption DEF Row, Definition
  <2>2. /\ Ask /\ Insert(d) /\ cache' = [cache EXCEPT ![w] = TRUE] /\ missed' = Race(d)
        /\ UNCHANGED <<clock, req, lake, serving, pass, marks, query, faults>>
    BY <1>1 DEF EnsureManaged
  <2> HIDE DEF d
  <2>3. asked' \in 0..MaxAsked /\ missed' \subseteq Keys
    BY <2>1, <2>2, AskType, RaceType
  <2>4. /\ inserted' \in 0..MaxRows /\ rows' \in Seq(Definition) /\ Len(rows') <= inserted'
        /\ \A i \in DOMAIN rows' : rows'[i].at <= clock
    BY <2>1, <2>2, InsertType
  <2>5. cache' \in [Workers -> BOOLEAN]
    BY <2>2 DEF TypeOK
  <2>6. QED
    BY <2>2, <2>3, <2>4, <2>5 DEF TypeOK, serving
<1>2. CASE RestartWorker(w)
  <2>1. /\ Fault /\ cache' = [cache EXCEPT ![w] = FALSE]
        /\ UNCHANGED <<clock, rows, inserted, asked, req, lake, serving, pass, marks, query, missed>>
    BY <1>2 DEF RestartWorker, table
  <2>2. faults' \in 0..MaxFaults
    BY <2>1, FaultType
  <2>3. QED
    BY <2>1, <2>2 DEF TypeOK, serving
<1>3. QED
  BY <1>1, <1>2

LEMMA MaterializerType ==
  ASSUME TypeOK, Materializer
  PROVE  TypeOK'
<1>1. /\ pass \in Pass /\ served \in Nat /\ recorded \in Nat /\ served <= recorded /\ recorded <= MaxCommits
      /\ MaxCommits \in Nat /\ lake \in [1..MaxCommits -> Times]
      /\ pass.pc # "idle" => served < pass.last /\ pass.last <= MaxCommits
      /\ pass.last \in Nat /\ pass.defs \subseteq Keys
      /\ tokens \subseteq events /\ events \subseteq 1..MaxCommits
      /\ index \subseteq [commit : events, key : Keys, output : OutputNames]
      /\ rows \in Seq(Definition) /\ missed \subseteq Keys
      /\ (pass.pc = "derived" => served + 1 \in events) /\ (pass.pc = "mark" => served < recorded)
  BY BoundsAssumption DEF TypeOK, Pass
<1>2. NoDefinitions
  BY DEF Materializer, ListCommits, LoadDefinitions, InsertEvents, InsertDerived, RecordCommit, AdvanceWatermarks,
         Crash
<1>4. faults \in 0..MaxFaults
  BY DEF TypeOK
<1>5. ASSUME NEW last \in DOMAIN lake, ListCommits(last) PROVE TypeOK'
  <2>1. served < last /\ pass' = [NoPass EXCEPT !.pc = "listed", !.last = last] /\ UNCHANGED <<serving, missed, faults>>
    BY <1>5 DEF ListCommits
  <2>2. last \in Nat /\ last <= MaxCommits
    BY <1>1
  <2>3. pass' \in Pass /\ pass'.last = last
    BY <2>1, <2>2 DEF NoPass, Pass
  <2>4. QED
    BY <1>1, <1>2, <1>4, <2>1, <2>2, <2>3 DEF TypeOK, NoDefinitions, table, serving
<1>6. CASE LoadDefinitions
  <2>1. pass.pc = "listed" /\ pass' = [pass EXCEPT !.pc = "events", !.defs = {Key(d) : d \in Active(rows)}]
        /\ UNCHANGED <<serving, missed, faults>>
    BY <1>6 DEF LoadDefinitions
  <2>2. {Key(d) : d \in Active(rows)} \subseteq Keys
    BY <1>1, ActiveRows, KeyType
  <2>3. pass' \in Pass /\ pass'.last = pass.last
    BY <1>1, <2>1, <2>2 DEF Pass
  <2>4. QED
    BY <1>1, <1>2, <1>4, <2>1, <2>3 DEF TypeOK, NoDefinitions, table, serving
<1>7. ASSUME NEW pc \in {"derived", "record", "mark", "events"}, pass' = [pass EXCEPT !.pc = pc]
      PROVE  pass' \in Pass /\ pass'.last = pass.last
  BY <1>1, <1>7 DEF Pass
<1>8. CASE InsertEvents
  <2>1. pass.pc = "events" /\ events' = events \union {served + 1} /\ pass' = [pass EXCEPT !.pc = "derived"]
        /\ UNCHANGED <<index, tokens, recorded, served, missed, faults>>
    BY <1>8 DEF InsertEvents
  <2>2. served + 1 \in 1..MaxCommits
    BY <1>1, <2>1
  <2>3. index' \subseteq [commit : events', key : Keys, output : OutputNames]
    BY <1>1, <2>1
  <2>4. pass' \in Pass /\ pass'.last = pass.last
    BY <1>7, <2>1
  <2>5. QED
    BY <1>1, <1>2, <1>4, <2>1, <2>2, <2>3, <2>4 DEF TypeOK, NoDefinitions, table
<1>9. CASE InsertDerived
  <2> DEFINE users == {key \in pass.defs : IsUser(key[1])}
  <2>1. /\ pass.pc = "derived" /\ tokens' = tokens \union {served + 1} /\ pass' = [pass EXCEPT !.pc = "record"]
        /\ UNCHANGED <<events, recorded, served, faults>>
        /\ \/ UNCHANGED <<index, missed>>
           \/ \E firsts \in SUBSET users :
                /\ index' = index \union UNION {Derived(served + 1, key) : key \in firsts}
                /\ missed' = missed \union (users \ firsts)
    BY <1>9 DEF InsertDerived
  <2>2. \A key \in users : Derived(served + 1, key) \subseteq [commit : events, key : Keys, output : OutputNames]
    <3>1. SUFFICES ASSUME NEW key \in users
                   PROVE  Derived(served + 1, key) \subseteq [commit : events, key : Keys, output : OutputNames]
      OBVIOUS
    <3>2. key \in Keys /\ key[1] \in DefinitionIds /\ IsUser(key[1])
      BY <1>1 DEF Keys
    <3>3. key[1][2] \in Slugs
      BY <3>2, UserIdParts
    <3>4. Range(Outputs[key[1][2]]) \subseteq OutputNames
      BY <3>3, OutputsType
    <3>5. QED
      BY <1>1, <2>1, <3>2, <3>4 DEF Derived
  <2>3. index' \subseteq [commit : events, key : Keys, output : OutputNames] /\ missed' \subseteq Keys
    <3>1. CASE UNCHANGED <<index, missed>>
      BY <1>1, <3>1
    <3>2. ASSUME NEW firsts \in SUBSET users,
                 index' = index \union UNION {Derived(served + 1, key) : key \in firsts},
                 missed' = missed \union (users \ firsts)
          PROVE  index' \subseteq [commit : events, key : Keys, output : OutputNames] /\ missed' \subseteq Keys
      <4>1. UNION {Derived(served + 1, key) : key \in firsts} \subseteq [commit : events, key : Keys, output : OutputNames]
        BY <2>2
      <4>2. QED
        BY <1>1, <3>2, <4>1
    <3>3. QED
      BY <2>1, <3>1, <3>2
  <2>4. pass' \in Pass /\ pass'.last = pass.last
    BY <1>7, <2>1
  <2>5. QED
    BY <1>1, <1>2, <1>4, <2>1, <2>3, <2>4 DEF TypeOK, NoDefinitions, table
<1>10. CASE RecordCommit
  <2>1. /\ pass.pc = "record" /\ recorded' = (IF recorded > served THEN recorded ELSE served + 1)
        /\ pass' = [pass EXCEPT !.pc = "mark"] /\ UNCHANGED <<events, index, tokens, served, missed, faults>>
    BY <1>10 DEF RecordCommit
  <2>2. recorded' \in Nat /\ served' <= recorded' /\ recorded' <= MaxCommits
    BY <1>1, <2>1
  <2>3. pass' \in Pass /\ pass'.last = pass.last
    BY <1>7, <2>1
  <2>4. QED
    BY <1>1, <1>2, <1>4, <2>1, <2>2, <2>3 DEF TypeOK, NoDefinitions, table
<1>11. CASE AdvanceWatermarks
  <2>1. /\ pass.pc = "mark" /\ served' = served + 1 /\ UNCHANGED <<events, index, tokens, recorded, missed, faults>>
        /\ pass' = (IF served' = pass.last THEN NoPass ELSE [pass EXCEPT !.pc = "events"])
    BY <1>11 DEF AdvanceWatermarks
  <2>2. served' \in Nat /\ served' <= recorded' /\ recorded' \in Nat
    BY <1>1, <2>1
  <2>3. pass' \in Pass /\ (pass'.pc # "idle" => pass'.pc = "events" /\ served' < pass'.last /\ pass'.last <= MaxCommits)
    <3>1. CASE served' = pass.last
      BY <2>1, <3>1 DEF NoPass, Pass
    <3>2. CASE served' # pass.last
      BY <1>1, <1>7, <2>1, <3>2
    <3>3. QED
      BY <3>1, <3>2
  <2>4. pass'.pc \in {"idle", "events"}
    BY <2>3
  <2>5. QED
    BY <1>1, <1>2, <1>4, <2>1, <2>2, <2>3, <2>4 DEF TypeOK, NoDefinitions, table
<1>12. CASE Crash
  <2>1. Fault /\ pass' = NoPass /\ UNCHANGED <<serving, missed>>
    BY <1>12 DEF Crash
  <2>2. pass' \in Pass /\ pass'.pc = "idle"
    BY <2>1 DEF NoPass, Pass
  <2>3. QED
    BY <1>1, <1>2, <2>1, <2>2, FaultType DEF TypeOK, NoDefinitions, table, serving
<1>13. QED
  BY <1>5, <1>6, <1>8, <1>9, <1>10, <1>11, <1>12 DEF Materializer

LEMMA QueryType ==
  ASSUME TypeOK, Query
  PROVE  TypeOK'
<1>1. query \in PathQuery /\ rows \in Seq(Definition) /\ served \in Nat /\ NoQuery \in PathQuery
      /\ marks \subseteq [key : Keys, low : Ends, high : Ends]
      /\ index \subseteq [commit : events, key : Keys, output : OutputNames]
  <2>1. <<Default, 0>> \in Keys
    BY IdTypes, BoundsAssumption DEF Keys
  <2>2. NoQuery \in PathQuery
    BY <2>1 DEF NoQuery, PathQuery, Ends
  <2>3. QED
    BY <2>2 DEF TypeOK
<1>2. NoWriter /\ (UNCHANGED asked \/ Ask)
  BY DEF Query, ReadPaths, ReadProven, ReadFresh, ReadCatalog, Run
<1>3. SUFFICES query' \in PathQuery
  <2>1. asked' \in 0..MaxAsked
    BY <1>2, AskType DEF TypeOK
  <2>2. QED
    BY <1>2, <1>3, <2>1 DEF TypeOK, NoWriter, table, serving
<1>4. ASSUME NEW win \in Windows, ReadPaths(win) PROVE query' \in PathQuery
  <2>1. query' = [NoQuery EXCEPT !.pc = "proven", !.low = win[1], !.high = win[2], !.floor = served,
                                !.indexed = {<<x.key, x.output>> : x \in index}]
    BY <1>4 DEF ReadPaths
  <2>2. win[1] \in Ends /\ win[2] \in Ends
    BY TimesAssumption DEF Ends
  <2>3. {<<x.key, x.output>> : x \in index} \subseteq Keys \X OutputNames
    BY <1>1
  <2>4. QED
    BY <1>1, <2>1, <2>2, <2>3 DEF PathQuery
<1>5. CASE ReadProven
  <2> DEFINE proven == {m.key : m \in {k \in marks : k.low <= query.low /\ k.high >= query.high}}
  <2>1. query' = [query EXCEPT !.pc = "fresh", !.proven = proven]
    BY <1>5 DEF ReadProven
  <2>2. proven \subseteq Keys
    BY <1>1
  <2> HIDE DEF proven
  <2>3. QED
    BY <1>1, <2>1, <2>2 DEF PathQuery
<1>6. CASE ReadFresh
  <2>1. query' = [query EXCEPT !.pc = "catalog", !.fresh = (recorded > 0 /\ served >= recorded)]
    BY <1>6 DEF ReadFresh
  <2>2. PICK b \in BOOLEAN : query' = [query EXCEPT !.pc = "catalog", !.fresh = b]
    BY <2>1
  <2>3. QED
    BY <1>1, <2>2 DEF PathQuery
<1>7. ASSUME NEW d \in Active(rows), IsUser(d.id), NEW o \in Range(Outputs[d.id[2]]), ReadCatalog(d, o)
      PROVE  query' \in PathQuery
  <2>1. d \in Definition /\ Key(d) \in Keys /\ d.id[2] \in Slugs
    BY <1>1, <1>7, ActiveRows, KeyType, UserIdParts
  <2>2. o \in OutputNames
    BY <1>7, <2>1, OutputsType
  <2>3. ASSUME NEW by \in {"watermark", "serving"},
               query' = [query EXCEPT !.pc = "run", !.by = by, !.key = Key(d), !.output = o]
        PROVE  query' \in PathQuery
    BY <1>1, <2>1, <2>2, <2>3 DEF PathQuery
  <2>4. \/ query' = [query EXCEPT !.pc = "run", !.by = "watermark", !.key = Key(d), !.output = o]
        \/ query' = [query EXCEPT !.pc = "run", !.by = "serving", !.key = Key(d), !.output = o]
        \/ query' = NoQuery
    BY <1>7 DEF ReadCatalog
  <2>5. QED
    BY <1>1, <2>3, <2>4
<1>8. CASE Run
  BY <1>1, <1>8 DEF Run
<1>9. QED
  BY <1>4, <1>5, <1>6, <1>7, <1>8 DEF Query

LEMMA TypeStep == TypeOK /\ [Next]_vars => TypeOK'
<1> SUFFICES ASSUME TypeOK, [Next]_vars PROVE TypeOK'
  OBVIOUS
<1>1. CASE UNCHANGED vars
  BY <1>1 DEF vars, table, serving, TypeOK
<1>2. CASE Tick
  <2>1. /\ clock' = clock + 1 /\ clock < MaxClock
        /\ UNCHANGED <<rows, inserted, asked, req, cache, lake, events, index, tokens, recorded, served, pass, marks,
                       query, missed, faults>>
    BY <1>2 DEF Tick, table, serving
  <2>2. clock \in Nat /\ clock' \in 1..MaxClock
    BY <2>1, BoundsAssumption DEF TypeOK
  <2>3. \A i \in DOMAIN rows : rows[i].at \in Nat
    <3>1. \A i \in DOMAIN rows : rows[i] \in Definition
      BY DEF TypeOK
    <3>2. QED
      BY <3>1, KeyType
  <2>4. \A r \in Requests : req[r].row.at \in Nat
    BY RequestParts, KeyType
  <2>5. /\ \A i \in DOMAIN rows : rows[i].at <= clock'
        /\ \A r \in Requests : req[r].row.at <= clock'
    BY <2>1, <2>2, <2>3, <2>4 DEF TypeOK
  <2>6. QED
    BY <2>1, <2>2, <2>5 DEF TypeOK
<1>3. ASSUME NEW i \in DOMAIN rows, Merge(i) PROVE TypeOK'
  <2>1. /\ rows' = RemoveAt(rows, i) /\ ~Stands(rows, i)
        /\ UNCHANGED <<clock, inserted, asked, req, cache, lake, serving, pass, marks, query, missed, faults>>
    BY <1>3 DEF Merge
  <2>2. rows \in Seq(Definition) /\ Len(rows) <= inserted /\ inserted \in 0..MaxRows
        /\ \A k \in DOMAIN rows : rows[k].at <= clock
    BY DEF TypeOK
  <2>3. /\ rows' \in Seq(Definition) /\ Len(rows') <= Len(rows)
        /\ \A j \in DOMAIN rows' : \E k \in DOMAIN rows : rows'[j] = rows[k]
    BY <1>3, <2>1, <2>2, Merged
  <2>4. Len(rows') <= inserted' /\ \A j \in DOMAIN rows' : rows'[j].at <= clock'
    <3>1. Len(rows) \in Nat /\ Len(rows') \in Nat /\ inserted \in Nat
      BY <2>2, <2>3, BoundsAssumption
    <3>2. QED
      BY <2>1, <2>2, <2>3, <3>1
  <2>5. QED
    BY <2>1, <2>3, <2>4 DEF TypeOK, serving
<1>4. ASSUME NEW r \in Requests, Api(r) PROVE TypeOK'
  BY <1>4, ApiType
<1>5. ASSUME NEW w \in Workers, EnsureManaged(w) \/ RestartWorker(w) PROVE TypeOK'
  BY <1>5, WorkersType
<1>6. QED
  BY <1>1, <1>2, <1>3, <1>4, <1>5, MaterializerType, QueryType DEF Next

\* The rows of definitions, the requests, passes and queries keep their types, for any
\* slugs, outputs and processes (apps/server/src/definitions.rs).
THEOREM TypeCorrect == Spec => []TypeOK
<1>1. QED
  BY InitType, TypeStep, PTL DEF Spec

-----------------------------------------------------------------------------
(* The rows of the users' definitions. *)

\* The version of a user's definition is the time in its identifier.
RowFits(d) == IsUser(d.id) /\ ~d.deleted => d.ver = d.id[3]

\* What a request has still to insert or to fill.
RequestFits(q) ==
  /\ q.pc = "create" => IsUser(q.row.id) /\ ~q.row.deleted /\ RowFits(q.row) /\ q.outputs = Outputs[q.row.id[2]]
  /\ q.pc = "delete" => q.row.deleted
  /\ q.pc \in {"seed", "seeding"} => ~IsUser(q.row.id)
  /\ q.pc = "fill" => IsUser(q.row.id) /\ q.row.ver = q.row.id[3]

TableFits ==
  /\ \A i \in DOMAIN rows : RowFits(rows[i])
  /\ \A r \in Requests : RequestFits(req[r])

\* The steps that change the table.
LEMMA TableSteps ==
  ASSUME TypeOK, [Next]_vars
  PROVE  \/ UNCHANGED rows
         \/ \E i \in DOMAIN rows : ~Stands(rows, i) /\ rows' = RemoveAt(rows, i) /\ UNCHANGED <<req, missed>>
         \/ \E d \in Definition :
              /\ Insert(d)
              /\ \/ ~IsUser(d.id) /\ UNCHANGED req
                 \/ \E r \in Requests :
                       /\ d = req[r].row
                       /\ \/ req[r].pc = "create" /\ missed' = Race(d)
                          \/ req[r].pc \in {"delete", "seeding"}
<1>1. CASE UNCHANGED vars
  BY <1>1 DEF vars, table
<1>2. CASE Tick
  BY <1>2 DEF Tick, table
<1>3. ASSUME NEW i \in DOMAIN rows, Merge(i)
      PROVE  ~Stands(rows, i) /\ rows' = RemoveAt(rows, i) /\ UNCHANGED <<req, missed>>
  BY <1>3 DEF Merge
<1>4. ASSUME NEW r \in Requests, Api(r)
      PROVE  \/ UNCHANGED rows
             \/ /\ req[r].row \in Definition /\ Insert(req[r].row)
                /\ \/ req[r].pc = "create" /\ missed' = Race(req[r].row)
                   \/ req[r].pc \in {"delete", "seeding"}
  <2>1. req[r].row \in Definition
    BY RequestParts
  <2>2. CASE InsertCreated(r)
    BY <2>1, <2>2 DEF InsertCreated
  <2>3. CASE InsertDeleted(r) \/ InsertSeeded(r)
    BY <2>1, <2>3 DEF InsertDeleted, InsertSeeded
  <2>4. CASE ~(InsertCreated(r) \/ InsertDeleted(r) \/ InsertSeeded(r))
    BY <1>4, <2>4 DEF Api, Create, Delete, StampDeleted, Seed, ReadSeeded, Backfill, FillOutput, MarkFilled,
                      Fail, table
  <2>5. QED
    BY <2>2, <2>3, <2>4
<1>5. ASSUME NEW w \in Workers, EnsureManaged(w) \/ RestartWorker(w)
      PROVE  UNCHANGED rows \/ \E d \in Definition : Insert(d) /\ ~IsUser(d.id) /\ UNCHANGED req
  <2>1. CASE EnsureManaged(w)
    <3> DEFINE d == Row(Managed, FALSE, clock, clock)
    <3>1. d \in Definition /\ d.id = Managed
      BY ClockType, IdTypes DEF Row, Definition
    <3>2. Insert(d) /\ UNCHANGED req
      BY <2>1 DEF EnsureManaged
    <3> HIDE DEF d
    <3>3. QED
      BY <3>1, <3>2, IdTypes
  <2>2. CASE RestartWorker(w)
    BY <2>2 DEF RestartWorker, table
  <2>3. QED
    BY <1>5, <2>1, <2>2
<1>6. CASE Materializer
  BY <1>6 DEF Materializer, ListCommits, LoadDefinitions, InsertEvents, InsertDerived, RecordCommit, AdvanceWatermarks,
              Crash, NoDefinitions, table
<1>7. CASE Query
  BY <1>7 DEF Query, ReadPaths, ReadProven, ReadFresh, ReadCatalog, Run, NoWriter, table
<1>8. QED
  BY <1>1, <1>2, <1>3, <1>4, <1>5, <1>6, <1>7 DEF Next

LEMMA RowsFitStep ==
  ASSUME TypeOK, TableFits, [Next]_vars, NEW j \in DOMAIN rows'
  PROVE  RowFits(rows'[j])
<1>1. rows \in Seq(Definition) /\ \A i \in DOMAIN rows : RowFits(rows[i])
  BY DEF TypeOK, TableFits
<1>2. CASE UNCHANGED rows
  BY <1>1, <1>2
<1>3. ASSUME NEW i \in DOMAIN rows, ~Stands(rows, i), rows' = RemoveAt(rows, i) PROVE RowFits(rows'[j])
  <2>1. PICK k \in DOMAIN rows : rows'[j] = rows[k]
    BY <1>1, <1>3, Merged
  <2>2. QED
    BY <1>1, <2>1
<1>4. ASSUME NEW d \in Definition, Insert(d), RowFits(d) PROVE RowFits(rows'[j])
  <2>1. rows'[j] = d \/ (j \in DOMAIN rows /\ rows'[j] = rows[j])
    BY <1>1, <1>4, Inserted DEF Insert
  <2>2. QED
    BY <1>1, <1>4, <2>1
<1>5. ASSUME NEW d, ~IsUser(d.id) PROVE RowFits(d)
  BY <1>5 DEF RowFits
<1>6. ASSUME NEW r \in Requests, req[r].pc \in {"create", "delete", "seeding"} PROVE RowFits(req[r].row)
  <2>1. RequestFits(req[r])
    BY DEF TableFits
  <2>2. QED
    BY <1>5, <1>6, <2>1 DEF RequestFits, RowFits
<1>7. QED
  BY <1>2, <1>3, <1>4, <1>5, <1>6, TableSteps

\* A user's definition that comes up is one a request to create it inserts.
LEMMA NewlyActive ==
  ASSUME TypeOK, TableFits, [Next]_vars, NEW d \in Active(rows'), IsUser(d.id), d \notin Active(rows)
  PROVE  /\ inserted' = inserted + 1 /\ missed' = Race(d)
         /\ rows' = Append(rows, d) /\ Stands(rows', Len(rows) + 1)
         /\ \E r \in Requests : req[r].pc = "create" /\ req[r].row = d
<1>1. rows \in Seq(Definition) /\ rows' \in Seq(Definition)
  BY TypeStep DEF TypeOK
<1>2. PICK j \in DOMAIN rows' : rows'[j] = d /\ Stands(rows', j) /\ ~d.deleted
  BY <1>1, ActiveRows
<1>3. rows' # rows
  OBVIOUS
<1>4. ASSUME NEW i \in DOMAIN rows, ~Stands(rows, i), rows' = RemoveAt(rows, i) PROVE FALSE
  BY <1>1, <1>4, Merged
<1>5. PICK c \in Definition :
         /\ Insert(c)
         /\ \/ ~IsUser(c.id) /\ UNCHANGED req
            \/ \E r \in Requests :
                 /\ c = req[r].row
                 /\ \/ req[r].pc = "create" /\ missed' = Race(c)
                    \/ req[r].pc \in {"delete", "seeding"}
  BY <1>3, <1>4, TableSteps
<1>6. rows' = Append(rows, c) /\ inserted' = inserted + 1
  BY <1>5 DEF Insert
<1>7. j \notin DOMAIN rows
  <2>1. ASSUME j \in DOMAIN rows PROVE FALSE
    <3>1. rows[j] = d /\ Stands(rows, j)
      BY <1>1, <1>2, <1>6, <2>1, Inserted
    <3>2. QED
      BY <1>1, <1>2, <2>1, <3>1, ActiveIntro
  <2>2. QED
    BY <2>1
<1>8. j = Len(rows) + 1 /\ c = d
  BY <1>1, <1>2, <1>6, <1>7, Inserted
<1>9. PICK r \in Requests : c = req[r].row /\ ((req[r].pc = "create" /\ missed' = Race(c)) \/ req[r].pc \in {"delete", "seeding"})
  BY <1>5, <1>8
<1>10. req[r].pc = "create" /\ missed' = Race(c)
  <2>1. RequestFits(req[r])
    BY DEF TableFits
  <2>2. QED
    BY <1>2, <1>8, <1>9, <2>1 DEF RequestFits
<1>11. QED
  BY <1>2, <1>6, <1>8, <1>9, <1>10

LEMMA RequestsFitStep ==
  ASSUME TypeOK, TableFits, [Next]_vars, NEW t \in Requests
  PROVE  RequestFits(req'[t])
<1>1. rows \in Seq(Definition) /\ req \in [Requests -> Request] /\ clock \in 1..MaxClock /\ clock \in Nat
      /\ \A i \in DOMAIN rows : rows[i].at <= clock /\ RowFits(rows[i])
  BY BoundsAssumption DEF TypeOK, TableFits
<1>2. RequestFits(req[t])
  BY DEF TableFits
<1>3. CASE UNCHANGED req
  BY <1>2, <1>3
<1>4. RequestFits(Idle)
  BY IdleType DEF RequestFits
<1>5. ASSUME NEW r \in Requests, NEW q, RequestFits(q), Goto(r, q) PROVE RequestFits(req'[t])
  <2>1. req'[t] = q \/ req'[t] = req[t]
    BY <1>1, <1>5 DEF Goto
  <2>2. QED
    BY <1>2, <1>5, <2>1
<1>6. ASSUME NEW r \in Requests, Api(r) PROVE RequestFits(req'[t])
  <2>1. RequestFits(req[r]) /\ req[r] \in Request
    BY <1>1 DEF TableFits
  <2>2. ASSUME NEW n \in Slugs, NEW fill \in BOOLEAN, NEW win \in Windows, Create(r, n, fill, win)
        PROVE  RequestFits(req'[t])
    <3>0. PICK now \in 1..clock :
            Goto(r, [pc |-> "create", row |-> Row(UserId(n, clock), FALSE, now, clock), fill |-> fill,
                     low |-> win[1], high |-> win[2], outputs |-> Outputs[n]])
      BY <2>2 DEF Create
    <3> DEFINE d == Row(UserId(n, clock), FALSE, now, clock)
               q == [pc |-> "create", row |-> d, fill |-> fill, low |-> win[1], high |-> win[2],
                     outputs |-> Outputs[n]]
    <3>1. /\ d.id = UserId(n, clock) /\ d.ver = clock /\ ~d.deleted /\ IsUser(d.id)
          /\ d.id[2] = n /\ d.id[3] = clock
      BY <1>1, IdTypes DEF Row
    <3>2. q.pc = "create" /\ q.row = d /\ q.outputs = Outputs[n]
      OBVIOUS
    <3>3. Goto(r, q)
      BY <3>0
    <3> HIDE DEF d, q
    <3>4. RequestFits(q)
      BY <1>1, <3>1, <3>2 DEF RequestFits, RowFits
    <3>5. QED
      BY <1>5, <3>3, <3>4
  <2>3. ASSUME NEW id \in Ids, Delete(r, id) PROVE RequestFits(req'[t])
    <3> DEFINE q == [Idle EXCEPT !.pc = "deleting", !.row = Row(id, TRUE, clock, clock)]
    <3>1. q.pc = "deleting" /\ Goto(r, q)
      BY <2>3, IdleType DEF Delete, Request
    <3> HIDE DEF q
    <3>2. RequestFits(q)
      BY <3>1 DEF RequestFits
    <3>3. QED
      BY <1>5, <3>1, <3>2
  <2>4. CASE Seed(r)
    <3> DEFINE d == Row(Default, FALSE, clock, 1)
               q == [Idle EXCEPT !.pc = "seed", !.row = d]
    <3>1. ~IsUser(d.id)
      BY IdTypes DEF Row
    <3>2. q.pc = "seed" /\ q.row = d
      BY IdleType DEF Request
    <3>3. Goto(r, q)
      BY <2>4 DEF Seed
    <3> HIDE DEF d, q
    <3>4. RequestFits(q)
      BY <3>1, <3>2 DEF RequestFits
    <3>5. QED
      BY <1>5, <3>3, <3>4
  <2>5. ASSUME NEW win \in Windows, Backfill(r, win) PROVE RequestFits(req'[t])
    <3>1. PICK d \in Active(rows) :
            /\ IsUser(d.id)
            /\ Goto(r, [pc |-> "fill", row |-> d, fill |-> TRUE, low |-> win[1], high |-> win[2],
                        outputs |-> Outputs[d.id[2]]])
      BY <2>5 DEF Backfill
    <3> DEFINE q == [pc |-> "fill", row |-> d, fill |-> TRUE, low |-> win[1], high |-> win[2],
                     outputs |-> Outputs[d.id[2]]]
    <3>2. d.ver = d.id[3]
      <4>1. ~d.deleted /\ RowFits(d)
        BY <1>1, ActiveRows
      <4>2. QED
        BY <3>1, <4>1 DEF RowFits
    <3>3. q.pc = "fill" /\ q.row = d
      OBVIOUS
    <3>4. Goto(r, q)
      BY <3>1
    <3> HIDE DEF q
    <3>5. RequestFits(q)
      BY <3>1, <3>2, <3>3 DEF RequestFits
    <3>6. QED
      BY <1>5, <3>4, <3>5
  <2>6. CASE InsertCreated(r)
    <3> DEFINE q == [req[r] EXCEPT !.pc = "fill"]
    <3>1. q.pc = "fill" /\ q.row = req[r].row
      BY <2>1 DEF Request
    <3>2. req[r].pc = "create" /\ (Goto(r, q) \/ Goto(r, Idle))
      BY <2>6 DEF InsertCreated
    <3> HIDE DEF q
    <3>3. RequestFits(q)
      BY <2>1, <3>1, <3>2 DEF RequestFits, RowFits
    <3>4. QED
      BY <1>4, <1>5, <3>2, <3>3
  <2>7. CASE ReadSeeded(r)
    <3> DEFINE q == [req[r] EXCEPT !.pc = "seeding"]
    <3>1. q.pc = "seeding" /\ q.row = req[r].row
      BY <2>1 DEF Request
    <3>2. req[r].pc = "seed" /\ (Goto(r, q) \/ Goto(r, Idle))
      BY <2>7 DEF ReadSeeded
    <3> HIDE DEF q
    <3>3. RequestFits(q)
      BY <2>1, <3>1, <3>2 DEF RequestFits
    <3>4. QED
      BY <1>4, <1>5, <3>2, <3>3
  <2>8. CASE FillOutput(r)
    <3> DEFINE q == [req[r] EXCEPT !.outputs = Tail(@)]
    <3>1. q.pc = req[r].pc /\ q.row = req[r].row
      BY <2>1 DEF Request
    <3>2. req[r].pc = "fill" /\ Goto(r, q)
      BY <2>8 DEF FillOutput
    <3> HIDE DEF q
    <3>3. RequestFits(q)
      BY <2>1, <3>1, <3>2 DEF RequestFits
    <3>4. QED
      BY <1>5, <3>2, <3>3
  <2>9. CASE InsertDeleted(r) \/ InsertSeeded(r) \/ MarkFilled(r) \/ Fail(r)
    <3>1. Goto(r, Idle)
      BY <2>9 DEF InsertDeleted, InsertSeeded, MarkFilled, Fail, Done
    <3>2. QED
      BY <1>4, <1>5, <3>1
  <2>10. CASE StampDeleted(r)
    <3>1. PICK now \in req[r].row.at..clock :
            Goto(r, [req[r] EXCEPT !.pc = "delete", !.row = Row(req[r].row.id, TRUE, now, clock)])
      BY <2>10 DEF StampDeleted
    <3> DEFINE q == [req[r] EXCEPT !.pc = "delete", !.row = Row(req[r].row.id, TRUE, now, clock)]
    <3>2. q.pc = "delete" /\ q.row.deleted /\ Goto(r, q)
      BY <2>1, <3>1 DEF Request, Row
    <3> HIDE DEF q
    <3>3. RequestFits(q)
      BY <3>2 DEF RequestFits
    <3>4. QED
      BY <1>5, <3>2, <3>3
  <2>11. QED
    BY <1>6, <2>2, <2>3, <2>4, <2>5, <2>6, <2>7, <2>8, <2>9, <2>10 DEF Api
<1>7. UNCHANGED req \/ \E r \in Requests : Api(r)
  BY DEF Next, vars, Tick, Merge, EnsureManaged, RestartWorker, Materializer, ListCommits, LoadDefinitions, InsertEvents,
         InsertDerived, RecordCommit, AdvanceWatermarks, Crash, NoDefinitions, Query, ReadPaths, ReadProven, ReadFresh,
         ReadCatalog, Run, NoWriter
<1>8. QED
  BY <1>3, <1>6, <1>7

LEMMA InitTableFits == Init => TableFits
<1> SUFFICES ASSUME Init PROVE TableFits
  OBVIOUS
<1>1. \A i \in DOMAIN rows : rows[i] = EarlierSeed
  BY DEF Init
<1>2. RowFits(EarlierSeed)
  BY EarlierType, IdTypes DEF RowFits
<1>3. \A r \in Requests : RequestFits(req[r])
  BY IdleType DEF Init, RequestFits
<1>4. QED
  BY <1>1, <1>2, <1>3 DEF TableFits

LEMMA TableFitsStep == TypeOK /\ TableFits /\ [Next]_vars => TableFits'
<1> SUFFICES ASSUME TypeOK, TableFits, [Next]_vars PROVE TableFits'
  OBVIOUS
<1>1. \A j \in DOMAIN rows' : RowFits(rows'[j])
  BY RowsFitStep
<1>2. \A t \in Requests : RequestFits(req'[t])
  BY RequestsFitStep
<1>3. QED
  BY <1>1, <1>2 DEF TableFits

\* A deleted definition stays deleted, through merges, repeated rows and requests that
\* run beside each other, but for a create of the same name whose identifier is of the same
\* millisecond (delete_definition, create_definition and the ReplacingMergeTree of the rows).
THEOREM DeletedStays == Spec => DeletionIsFinal
<1>1. Init => TypeOK /\ TableFits
  BY InitType, InitTableFits
<1>2. TypeOK /\ TableFits /\ [Next]_vars => (TypeOK /\ TableFits)'
  BY TypeStep, TableFitsStep
<1> DEFINE Final1 == \A i \in DOMAIN rows :
                        /\ IsUser(rows[i].id) /\ ~IsActive(rows, rows[i].id)
                        /\ IsActive(rows', rows[i].id)
                        => \E r \in Requests : req[r].pc = "create" /\ req[r].row.id = rows[i].id
                                                /\ inserted' = inserted + 1
<1>3. TypeOK /\ TableFits /\ [Next]_vars => Final1
  <2>1. SUFFICES ASSUME TypeOK, TableFits, [Next]_vars, NEW i \in DOMAIN rows,
                        IsUser(rows[i].id), ~IsActive(rows, rows[i].id), IsActive(rows', rows[i].id)
                 PROVE  \E r \in Requests : req[r].pc = "create" /\ req[r].row.id = rows[i].id
                                             /\ inserted' = inserted + 1
    OBVIOUS
  <2>2. PICK d \in Active(rows') : d.id = rows[i].id
    BY <2>1 DEF IsActive
  <2>3. d \notin Active(rows) /\ IsUser(d.id)
    BY <2>1, <2>2 DEF IsActive
  <2>4. QED
    BY <2>1, <2>2, <2>3, NewlyActive
<1>4. TypeOK /\ TableFits /\ [Next]_vars => [Final1]_vars
  BY <1>3
<1>5. QED
  BY <1>1, <1>2, <1>4, PTL DEF Spec, DeletionIsFinal

-----------------------------------------------------------------------------
(* The index of a definition. *)

\* A definition with a row; the definitions with one were inserted before.
Listed(id) == \E i \in DOMAIN rows : rows[i].id = id

\* The definitions the passes know since they were inserted.
Held(key) == key \notin missed /\ IsActive(rows, key[1])

Names(key) == Range(Outputs[key[1][2]])

\* The key of a user's definition: its version is the time in its identifier.
Keyed(key) == key[1] \in DefinitionIds /\ IsUser(key[1]) /\ key[2] = key[1][3]

Filled(key, low, high, o) ==
  \A n \in tokens : InWindow(n, low, high) => [commit |-> n, key |-> key, output |-> o] \in index

\* A synchronous backfill has filled the outputs it is through with.
FillFits(q) ==
  q.pc = "fill" =>
    /\ Listed(q.row.id)
    /\ Held(Key(q.row)) =>
         \A o \in Names(Key(q.row)) \ Range(q.outputs) : Filled(Key(q.row), q.low, q.high, o)

MarkFits(m) ==
  /\ Keyed(m.key) /\ Listed(m.key[1])
  /\ Held(m.key) => \A o \in Names(m.key) : Filled(m.key, m.low, m.high, o)

\* A pass knows the definitions that are active, but for those missed.
PassFits ==
  /\ pass.pc \notin {"idle", "listed"} =>
       \A d \in Active(rows) : IsUser(d.id) => Key(d) \in pass.defs \cup missed
  /\ 1..served \subseteq tokens
  /\ pass.pc \in {"record", "mark"} => served + 1 \in tokens

IndexInv ==
  /\ \A r \in Requests : FillFits(req[r])
  /\ \A m \in marks : MarkFits(m)
  /\ PassFits

LEMMA ActiveKey ==
  ASSUME TypeOK, TableFits, NEW d \in Active(rows), IsUser(d.id)
  PROVE  Keyed(Key(d)) /\ Listed(d.id) /\ Key(d)[1] = d.id
<1>1. rows \in Seq(Definition)
  BY DEF TypeOK
<1>2. d \in Definition /\ ~d.deleted /\ \E i \in DOMAIN rows : rows[i] = d
  BY <1>1, ActiveRows
<1>3. RowFits(d)
  BY <1>2 DEF TableFits
<1>4. d.ver = d.id[3]
  BY <1>2, <1>3 DEF RowFits
<1>5. QED
  BY <1>2, <1>4, KeyType DEF Keyed, Listed

\* What only grows.
LEMMA Growing ==
  ASSUME TypeOK, [Next]_vars
  PROVE  /\ tokens \subseteq tokens' /\ index \subseteq index' /\ missed \subseteq missed' /\ lake' = lake
         /\ tokens' = tokens \/ InsertDerived
<1>1. CASE UNCHANGED vars
  BY <1>1 DEF vars, serving
<1>2. CASE Tick
  BY <1>2 DEF Tick, serving
<1>3. ASSUME NEW i \in DOMAIN rows, Merge(i) PROVE UNCHANGED <<tokens, index, missed, lake>>
  BY <1>3 DEF Merge, serving
<1>4. ASSUME NEW r \in Requests, Api(r)
      PROVE  UNCHANGED <<tokens, lake>> /\ index \subseteq index' /\ missed \subseteq missed'
  <2>1. CASE InsertCreated(r)
    <3>1. UNCHANGED <<tokens, lake, index>> /\ missed' = Race(req[r].row)
      BY <2>1 DEF InsertCreated, NoServing, serving
    <3>2. QED
      BY <3>1 DEF Race
  <2>2. CASE FillOutput(r)
    BY <2>2 DEF FillOutput
  <2>3. CASE ~(InsertCreated(r) \/ FillOutput(r))
    BY <1>4, <2>3 DEF Api, Create, Delete, StampDeleted, InsertDeleted, Seed, ReadSeeded, InsertSeeded, Backfill, MarkFilled, Fail,
                      NoServing, serving
  <2>4. QED
    BY <2>1, <2>2, <2>3
<1>5. ASSUME NEW w \in Workers, EnsureManaged(w) \/ RestartWorker(w)
      PROVE  UNCHANGED <<tokens, lake, index>> /\ missed \subseteq missed'
  BY <1>5 DEF EnsureManaged, RestartWorker, Race, serving
<1>6. CASE Materializer
  <2>1. CASE InsertDerived
    <3>1. /\ tokens \subseteq tokens' /\ lake' = lake
          /\ \/ UNCHANGED <<index, missed>>
             \/ \E firsts :
                  /\ index' = index \union UNION {Derived(served + 1, key) : key \in firsts}
                  /\ missed' = missed \union ({key \in pass.defs : IsUser(key[1])} \ firsts)
      BY <2>1 DEF InsertDerived, NoDefinitions
    <3>2. QED
      BY <2>1, <3>1
  <2>2. CASE ~InsertDerived
    BY <1>6, <2>2 DEF Materializer, ListCommits, LoadDefinitions, InsertEvents, RecordCommit, AdvanceWatermarks, Crash,
                      NoDefinitions, serving
  <2>3. QED
    BY <2>1, <2>2
<1>7. CASE Query
  BY <1>7 DEF Query, ReadPaths, ReadProven, ReadFresh, ReadCatalog, Run, NoWriter, serving
<1>8. QED
  BY <1>1, <1>2, <1>3, <1>4, <1>5, <1>6, <1>7 DEF Next

LEMMA ListedStays ==
  ASSUME TypeOK, [Next]_vars, NEW id, Listed(id)
  PROVE  Listed(id)'
<1>1. rows \in Seq(Definition)
  BY DEF TypeOK
<1>2. PICK k \in DOMAIN rows : rows[k].id = id
  BY DEF Listed
<1>3. CASE UNCHANGED rows
  BY <1>2, <1>3 DEF Listed
<1>4. ASSUME NEW i \in DOMAIN rows, ~Stands(rows, i), rows' = RemoveAt(rows, i) PROVE Listed(id)'
  <2>1. \E j \in DOMAIN rows' : rows'[j].id = id
    BY <1>1, <1>2, <1>4, Merged
  <2>2. QED
    BY <2>1 DEF Listed
<1>5. ASSUME NEW d \in Definition, Insert(d) PROVE Listed(id)'
  <2>1. k \in DOMAIN rows' /\ rows'[k] = rows[k]
    BY <1>1, <1>5, Inserted DEF Insert
  <2>2. QED
    BY <1>2, <2>1 DEF Listed
<1>6. QED
  BY <1>3, <1>4, <1>5, TableSteps

\* A definition that had a row and is held now was held before: a definition that
\* comes up again is a twin of a deleted one, and the passes have missed it.
LEMMA HeldBefore ==
  ASSUME TypeOK, TableFits, [Next]_vars, NEW key, Keyed(key), Listed(key[1]), key = <<key[1], key[2]>>, Held(key)'
  PROVE  Held(key)
<1>1. key \notin missed' /\ key \notin missed /\ IsActive(rows', key[1])
  BY Growing DEF Held
<1>2. SUFFICES ASSUME ~IsActive(rows, key[1]) PROVE FALSE
  BY <1>1 DEF Held
<1>3. PICK d \in Active(rows') : d.id = key[1]
  BY <1>1 DEF IsActive
<1>4. d \notin Active(rows) /\ IsUser(d.id)
  BY <1>2, <1>3 DEF IsActive, Keyed
<1>5. /\ missed' = Race(d) /\ rows' = Append(rows, d) /\ Stands(rows', Len(rows) + 1)
      /\ \E r \in Requests : req[r].pc = "create" /\ req[r].row = d
  BY <1>3, <1>4, NewlyActive
<1>6. d.ver = d.id[3]
  <2>1. PICK r \in Requests : req[r].pc = "create" /\ req[r].row = d
    BY <1>5
  <2>2. RequestFits(req[r])
    BY DEF TableFits
  <2>3. QED
    BY <1>4, <2>1, <2>2 DEF RequestFits, RowFits
<1>7. PICK j \in DOMAIN rows : rows[j].id = key[1]
  BY DEF Listed
<1>8. Key(d) = key
  BY <1>3, <1>6 DEF Key, Keyed
<1>9. key \in Race(d)
  BY <1>3, <1>7, <1>8 DEF Race
<1>10. QED
  BY <1>1, <1>5, <1>9

\* What is filled stays filled: the derived rows of one more commit are those of
\* each definition that is held.
LEMMA FilledStays ==
  ASSUME TypeOK, TableFits, PassFits, [Next]_vars, NEW key, Keyed(key), key = <<key[1], key[2]>>, Held(key), key \notin missed',
         NEW low, NEW high, NEW o \in Names(key), Filled(key, low, high, o)
  PROVE  Filled(key, low, high, o)'
<1>1. tokens \subseteq tokens' /\ index \subseteq index' /\ lake' = lake
  BY Growing
<1>2. \A n : InWindow(n, low, high)' <=> InWindow(n, low, high)
  BY <1>1 DEF InWindow
<1>3. CASE tokens' = tokens
  BY <1>1, <1>2, <1>3 DEF Filled
<1>4. CASE InsertDerived /\ tokens' # tokens
  <2> DEFINE n == served + 1
             users == {k \in pass.defs : IsUser(k[1])}
  <2>1. /\ pass.pc = "derived" /\ tokens' = tokens \union {n}
        /\ \E firsts \in SUBSET users :
             /\ index' = index \union UNION {Derived(n, k) : k \in firsts}
             /\ missed' = missed \union (users \ firsts)
    BY <1>4 DEF InsertDerived
  <2>2. key \in users
    <3>1. PICK d \in Active(rows) : d.id = key[1]
      BY DEF Held, IsActive
    <3>2. Keyed(Key(d)) /\ Key(d)[1] = d.id /\ Key(d) = <<d.id, d.ver>> /\ IsUser(d.id)
      BY <3>1, ActiveKey DEF Keyed, Key
    <3>3. Key(d) = key
      BY <3>1, <3>2 DEF Keyed
    <3>4. Key(d) \in pass.defs
      BY <2>1, <3>2, <3>3 DEF PassFits, Held
    <3>5. QED
      BY <3>3, <3>4 DEF Keyed
  <2>3. PICK firsts \in SUBSET users :
             /\ index' = index \union UNION {Derived(n, k) : k \in firsts}
             /\ missed' = missed \union (users \ firsts)
    BY <2>1
  <2>4. key \in firsts
    BY <2>2, <2>3
  <2> HIDE DEF n, users
  <2>5. [commit |-> n, key |-> key, output |-> o] \in index'
    <3>1. [commit |-> n, key |-> key, output |-> o] \in Derived(n, key)
      BY DEF Derived, Names
    <3>2. Derived(n, key) \subseteq UNION {Derived(n, k) : k \in firsts}
      BY <2>4
    <3>3. QED
      BY <2>3, <3>1, <3>2
  <2>6. \A m \in tokens' : InWindow(m, low, high) => [commit |-> m, key |-> key, output |-> o] \in index'
    BY <1>1, <2>1, <2>5 DEF Filled
  <2>7. QED
    BY <1>2, <2>6 DEF Filled
<1>5. QED
  BY <1>3, <1>4, Growing

\* A request that is through with an output, and a mark, stay so.
LEMMA FillStays ==
  ASSUME TypeOK, TableFits, PassFits, [Next]_vars, NEW q \in Request, RequestFits(q), FillFits(q)
  PROVE  FillFits(q)'
<1>1. SUFFICES ASSUME q.pc = "fill"
               PROVE  /\ Listed(q.row.id)'
                      /\ Held(Key(q.row))' =>
                           \A o \in Names(Key(q.row)) \ Range(q.outputs) : Filled(Key(q.row), q.low, q.high, o)'
  BY DEF FillFits, Key, Names
<1>2. Listed(q.row.id)'
  BY <1>1, ListedStays DEF FillFits
<1>3. PICK key : key = Key(q.row)
  OBVIOUS
<1>4. Keyed(key) /\ key = <<key[1], key[2]>> /\ key[1] = q.row.id /\ Listed(key[1])
  BY <1>1, <1>3 DEF RequestFits, FillFits, Request, Definition, Key, Keyed
<1>5. ASSUME Held(key)', NEW o \in Names(key) \ Range(q.outputs) PROVE Filled(key, q.low, q.high, o)'
  <2>1. Held(key) /\ key \notin missed'
    BY <1>4, <1>5, HeldBefore DEF Held
  <2>2. Filled(key, q.low, q.high, o)
    BY <1>1, <1>3, <1>5, <2>1 DEF FillFits
  <2>3. QED
    BY <1>4, <1>5, <2>1, <2>2, FilledStays
<1>6. QED
  BY <1>2, <1>3, <1>5 DEF Key

LEMMA MarkStays ==
  ASSUME TypeOK, TableFits, PassFits, [Next]_vars, NEW m, m.key = <<m.key[1], m.key[2]>>, MarkFits(m)
  PROVE  MarkFits(m)'
<1>1. Keyed(m.key) /\ Listed(m.key[1])
  BY DEF MarkFits
<1>2. Keyed(m.key)' /\ Listed(m.key[1])'
  BY <1>1, ListedStays DEF Keyed
<1>3. ASSUME Held(m.key)', NEW o \in Names(m.key) PROVE Filled(m.key, m.low, m.high, o)'
  <2>1. Held(m.key) /\ m.key \notin missed'
    BY <1>1, <1>3, HeldBefore DEF Held
  <2>2. Filled(m.key, m.low, m.high, o)
    BY <1>3, <2>1 DEF MarkFits
  <2>3. QED
    BY <1>1, <1>3, <2>1, <2>2, FilledStays
<1>4. QED
  BY <1>2, <1>3 DEF MarkFits, Names

LEMMA InitIndex == Init => IndexInv
<1> SUFFICES ASSUME Init PROVE IndexInv
  OBVIOUS
<1>1. \A r \in Requests : FillFits(req[r])
  BY IdleType DEF Init, FillFits
<1>2. marks = {} /\ PassFits
  BY DEF Init, NoPass, PassFits
<1>3. QED
  BY <1>1, <1>2 DEF IndexInv

\* A request starts a backfill with all outputs to fill, and drops one when it is filled.
LEMMA FillsFitStep ==
  ASSUME TypeOK, TableFits, IndexInv, [Next]_vars, NEW t \in Requests
  PROVE  FillFits(req[t])'
<1>1. TypeOK' /\ TableFits' /\ PassFits
  BY TypeStep, TableFitsStep DEF IndexInv
<1>2. PICK q \in Request : q = req[t] /\ RequestFits(q) /\ FillFits(q)
  BY RequestParts DEF TableFits, IndexInv
<1>3. PICK p \in Request : p = req'[t] /\ RequestFits(p)
  <2>1. req'[t] \in Request
    BY <1>1 DEF TypeOK
  <2>2. QED
    BY <1>1, <2>1, RequestsFitStep
<1>4. SUFFICES FillFits(p)'
  BY <1>3 DEF FillFits, Listed, Held, Names, Filled, InWindow, Key
<1>5. CASE p = q
  BY <1>1, <1>2, <1>5, FillStays
<1>6. CASE p.pc # "fill"
  BY <1>6 DEF FillFits
<1>7. ASSUME NEW r \in Requests, Api(r), p # q, p.pc = "fill" PROVE FillFits(p)'
  <2>1. req \in [Requests -> Request]
    BY DEF TypeOK
  <2>2. ASSUME NEW c, Goto(r, c) PROVE p = c /\ r = t
    BY <1>2, <1>3, <1>7, <2>1, <2>2 DEF Goto
  <2>3. ASSUME Names(Key(p.row)) \subseteq Range(p.outputs), Listed(p.row.id)' PROVE FillFits(p)'
    BY <2>3 DEF FillFits, Names, Key
  <2>4. CASE InsertCreated(r)
    <3>1. q.pc = "create" /\ rows' = Append(rows, q.row) /\ r = t
          /\ (p = [q EXCEPT !.pc = "fill"] \/ p = Idle)
      <4>1. /\ req[r].pc = "create" /\ Insert(req[r].row)
            /\ Goto(r, [req[r] EXCEPT !.pc = "fill"]) \/ Goto(r, Idle)
        BY <2>4 DEF InsertCreated
      <4>2. r = t
        BY <2>2, <4>1
      <4>3. QED
        BY <1>2, <2>2, <4>1, <4>2 DEF Insert
    <3>2. p.row = q.row /\ p.outputs = q.outputs
      BY <1>7, <3>1, IdleType DEF Request
    <3>3. q.outputs = Outputs[q.row.id[2]]
      BY <1>2, <3>1 DEF RequestFits
    <3>4. Names(Key(p.row)) = Range(p.outputs)
      BY <3>2, <3>3 DEF Names, Key
    <3>5. Listed(p.row.id)'
      <4>1. rows \in Seq(Definition) /\ q.row \in Definition
        BY DEF TypeOK, Request
      <4>2. Len(rows) + 1 \in DOMAIN rows' /\ rows'[Len(rows) + 1] = q.row
        BY <3>1, <4>1, Inserted
      <4>3. QED
        BY <3>2, <4>2 DEF Listed
    <3>6. QED
      BY <2>3, <3>4, <3>5
  <2>5. ASSUME NEW win \in Windows, Backfill(r, win) PROVE FillFits(p)'
    <3>1. PICK d \in Active(rows) :
            /\ IsUser(d.id)
            /\ Goto(r, [pc |-> "fill", row |-> d, fill |-> TRUE, low |-> win[1], high |-> win[2],
                        outputs |-> Outputs[d.id[2]]])
      BY <2>5 DEF Backfill
    <3>2. p = [pc |-> "fill", row |-> d, fill |-> TRUE, low |-> win[1], high |-> win[2],
               outputs |-> Outputs[d.id[2]]]
      BY <2>2, <3>1
    <3>3. Names(Key(p.row)) = Range(p.outputs)
      BY <3>2 DEF Names, Key
    <3>4. Listed(p.row.id)
      BY <3>1, <3>2, ActiveKey
    <3>5. QED
      BY <2>3, <3>3, <3>4, ListedStays
  <2>6. CASE FillOutput(r)
    <3>1. /\ req[r].pc = "fill" /\ req[r].outputs # <<>>
          /\ index' = index \union {[commit |-> n, key |-> Key(req[r].row), output |-> Head(req[r].outputs)] :
                                      n \in {m \in events : InWindow(m, req[r].low, req[r].high)}}
          /\ Goto(r, [req[r] EXCEPT !.outputs = Tail(@)])
          /\ tokens' = tokens /\ lake' = lake /\ rows' = rows /\ missed' = missed
      BY <2>6 DEF FillOutput, table
    <3>2. q = req[r] /\ p = [q EXCEPT !.outputs = Tail(@)]
      BY <1>2, <2>2, <3>1
    <3>3. p.row = q.row /\ p.low = q.low /\ p.high = q.high /\ p.outputs = Tail(q.outputs) /\ q.outputs \in Seq(OutputNames)
      BY <3>2 DEF Request
    <3>4. PICK key : key = Key(q.row)
      OBVIOUS
    <3>5. FillFits(q)'
      BY <1>1, <1>2, FillStays
    <3>6. Filled(key, q.low, q.high, Head(q.outputs))'
      <4>1. tokens \subseteq events
        BY DEF TypeOK
      <4>2. \A n \in tokens : InWindow(n, q.low, q.high) =>
               [commit |-> n, key |-> key, output |-> Head(q.outputs)] \in index'
        BY <3>1, <3>2, <3>4, <4>1
      <4>3. QED
        BY <3>1, <4>2 DEF Filled, InWindow
    <3>7. \A o : o \in Range(q.outputs) => o = Head(q.outputs) \/ o \in Range(p.outputs)
      <4>1. q.outputs # <<>>
        BY <3>1, <3>2
      <4>2. /\ Tail(q.outputs) \in Seq(OutputNames) /\ Len(Tail(q.outputs)) = Len(q.outputs) - 1
            /\ \A i \in 1 .. Len(q.outputs) - 1 : Tail(q.outputs)[i] = q.outputs[i + 1]
        BY <3>3, <4>1, HeadTailProperties
      <4>3. ASSUME NEW i \in DOMAIN q.outputs PROVE q.outputs[i] = Head(q.outputs) \/ q.outputs[i] \in Range(Tail(q.outputs))
        <5>1. CASE i = 1
          BY <3>3, <5>1
        <5>2. CASE i # 1
          <6>1. i - 1 \in 1 .. Len(q.outputs) - 1 /\ i - 1 + 1 = i
            BY <3>3, <5>2
          <6>2. i - 1 \in DOMAIN Tail(q.outputs) /\ Tail(q.outputs)[i - 1] = q.outputs[i]
            BY <4>2, <6>1
          <6>3. QED
            BY <6>2 DEF Range
        <5>3. QED
          BY <5>1, <5>2
      <4>4. QED
        BY <3>3, <4>3 DEF Range
    <3>8. Listed(p.row.id)' /\ (Held(key)' => \A o \in Names(key) \ Range(q.outputs) : Filled(key, q.low, q.high, o)')
      <4>1. q.pc = "fill"
        BY <3>1, <3>2
      <4>2. QED
        BY <3>3, <3>4, <3>5, <4>1 DEF FillFits, Key, Names
    <3>9. Held(key)' => \A o \in Names(key) \ Range(p.outputs) : Filled(key, p.low, p.high, o)'
      BY <3>3, <3>6, <3>7, <3>8
    <3>10. QED
      BY <3>3, <3>4, <3>8, <3>9 DEF FillFits, Key, Names
  <2>7. ASSUME NEW c, c.pc # "fill", Goto(r, c) PROVE FillFits(p)'
    BY <1>7, <2>2, <2>7
  <2>8. CASE InsertDeleted(r) \/ InsertSeeded(r) \/ MarkFilled(r) \/ Fail(r)
    BY <2>7, <2>8, IdleType DEF InsertDeleted, InsertSeeded, MarkFilled, Fail, Done
  <2>9. ASSUME NEW n \in Slugs, NEW fill \in BOOLEAN, NEW win \in Windows, Create(r, n, fill, win) PROVE FillFits(p)'
    BY <2>7, <2>9 DEF Create
  <2>10. CASE Seed(r) \/ \E id \in Ids : Delete(r, id)
    <3>1. PICK c : Goto(r, c) /\ c.pc \in {"seed", "deleting"}
      <4>1. \A d, pc : [Idle EXCEPT !.pc = pc, !.row = d].pc = pc
        BY DEF Idle
      <4>2. QED
        BY <2>10, <4>1 DEF Seed, Delete
    <3>2. QED
      BY <2>7, <3>1
  <2>11. CASE ReadSeeded(r)
    <3>1. Goto(r, Idle) \/ Goto(r, [req[r] EXCEPT !.pc = "seeding"])
      BY <2>11 DEF ReadSeeded
    <3>2. req[r] \in Request /\ [req[r] EXCEPT !.pc = "seeding"].pc = "seeding"
      BY <2>1 DEF Request
    <3>3. CASE Goto(r, Idle)
      BY <2>7, <3>3, IdleType
    <3>4. CASE Goto(r, [req[r] EXCEPT !.pc = "seeding"])
      BY <1>7, <2>2, <3>2, <3>4
    <3>5. QED
      BY <3>1, <3>3, <3>4
  <2>12. CASE StampDeleted(r)
    <3>1. PICK c : Goto(r, c) /\ c.pc = "delete"
      <4>1. \A d : [req[r] EXCEPT !.pc = "delete", !.row = d].pc = "delete"
        BY <2>1 DEF Request
      <4>2. QED
        BY <2>12, <4>1 DEF StampDeleted
    <3>2. QED
      BY <2>7, <3>1
  <2>13. QED
    BY <1>7, <2>4, <2>5, <2>6, <2>8, <2>9, <2>10, <2>11, <2>12 DEF Api
<1>8. UNCHANGED req \/ \E r \in Requests : Api(r)
  BY DEF Next, vars, Tick, Merge, EnsureManaged, RestartWorker, Materializer, ListCommits, LoadDefinitions, InsertEvents,
         InsertDerived, RecordCommit, AdvanceWatermarks, Crash, NoDefinitions, Query, ReadPaths, ReadProven, ReadFresh,
         ReadCatalog, Run, NoWriter
<1>9. QED
  BY <1>2, <1>3, <1>5, <1>6, <1>7, <1>8

\* A mark is set when nothing is left to fill.
LEMMA MarksFitStep ==
  ASSUME TypeOK, TableFits, IndexInv, [Next]_vars
  PROVE  /\ marks \subseteq marks'
         /\ \A m \in marks' : MarkFits(m)'
<1>1. PassFits /\ \A m \in marks : MarkFits(m) /\ m.key = <<m.key[1], m.key[2]>>
  <2>1. \A m \in marks : m.key \in Keys
    BY DEF TypeOK
  <2>2. QED
    BY <2>1 DEF IndexInv, Keys
<1>2. \A m \in marks : MarkFits(m)'
  BY <1>1, MarkStays
<1>3. ASSUME NEW r \in Requests, MarkFilled(r)
      PROVE  marks \subseteq marks' /\ \A m \in marks' : MarkFits(m)'
  <2>1. PICK q \in Request : q = req[r] /\ RequestFits(q) /\ FillFits(q)
    BY RequestParts DEF TableFits, IndexInv
  <2>2. q.pc = "fill" /\ q.outputs = <<>> /\ marks' = marks \union {[key |-> Key(q.row), low |-> q.low, high |-> q.high]}
    BY <1>3, <2>1 DEF MarkFilled
  <2>3. PICK m : m = [key |-> Key(q.row), low |-> q.low, high |-> q.high]
    OBVIOUS
  <2>4. m.key = Key(q.row) /\ m.low = q.low /\ m.high = q.high /\ m.key[1] = q.row.id /\ m.key = <<m.key[1], m.key[2]>>
    BY <2>3 DEF Key
  <2>5. Keyed(m.key)
    BY <2>2, <2>1, <2>4 DEF RequestFits, Request, Definition, Key, Keyed
  <2>6. Range(q.outputs) = {}
    BY <2>2 DEF Range
  <2>7. MarkFits(m)
    BY <2>1, <2>2, <2>4, <2>5, <2>6 DEF FillFits, MarkFits
  <2>8. MarkFits(m)'
    BY <1>1, <2>4, <2>7, MarkStays
  <2>9. QED
    BY <1>2, <2>2, <2>3, <2>8
<1>4. UNCHANGED marks \/ \E r \in Requests : MarkFilled(r)
  BY DEF Next, vars, Tick, Merge, EnsureManaged, RestartWorker, Materializer, ListCommits, LoadDefinitions, InsertEvents,
         InsertDerived, RecordCommit, AdvanceWatermarks, Crash, NoDefinitions, Query, ReadPaths, ReadProven, ReadFresh,
         ReadCatalog, Run, NoWriter, Api, Create, InsertCreated, Delete, StampDeleted, InsertDeleted, Seed, ReadSeeded, InsertSeeded,
         Backfill, FillOutput, Fail
<1>5. QED
  BY <1>2, <1>3, <1>4

\* The steps of the materializer.
LEMMA PassSteps ==
  ASSUME TypeOK, PassFits, [Next]_vars
  PROVE  /\ \/ pass'.pc \in {"idle", "listed"}
            \/ rows' = rows /\ pass'.defs = {Key(d) : d \in Active(rows)}
            \/ pass.pc \notin {"idle", "listed"} /\ pass'.defs = pass.defs
         /\ served' = served \/ (served' = served + 1 /\ served + 1 \in tokens)
         /\ pass'.pc \in {"record", "mark"} => served' + 1 \in tokens'
<1>1. pass \in Pass
  BY DEF TypeOK
<1>2. ASSUME UNCHANGED <<pass, served>>
      PROVE  /\ \/ pass'.pc \in {"idle", "listed"}
                \/ pass.pc \notin {"idle", "listed"} /\ pass'.defs = pass.defs
             /\ served' = served
             /\ pass'.pc \in {"record", "mark"} => served' + 1 \in tokens'
  BY <1>2, Growing DEF PassFits
<1>3. ASSUME NEW r \in Requests, Api(r) PROVE UNCHANGED <<pass, served>>
  BY <1>3 DEF Api, Create, InsertCreated, Delete, StampDeleted, InsertDeleted, Seed, ReadSeeded, InsertSeeded, Backfill, FillOutput,
              MarkFilled, Fail, NoServing, serving
<1>4. ASSUME NEW w \in Workers, EnsureManaged(w) \/ RestartWorker(w) PROVE UNCHANGED <<pass, served>>
  BY <1>4 DEF EnsureManaged, RestartWorker, serving
<1>5. ASSUME UNCHANGED vars \/ Tick \/ Query \/ \E i \in DOMAIN rows : Merge(i) PROVE UNCHANGED <<pass, served>>
  BY <1>5 DEF vars, serving, Tick, Merge, Query, ReadPaths, ReadProven, ReadFresh, ReadCatalog, Run, NoWriter
<1>6. CASE Materializer
  <2>1. ASSUME NEW last \in DOMAIN lake, ListCommits(last) PROVE pass'.pc = "listed" /\ served' = served
    BY <2>1 DEF ListCommits, NoPass, serving
  <2>2. CASE LoadDefinitions
    <3>1. rows' = rows /\ served' = served /\ pass' = [pass EXCEPT !.pc = "events", !.defs = {Key(d) : d \in Active(rows)}]
      BY <2>2 DEF LoadDefinitions, NoDefinitions, table, serving
    <3>2. pass'.pc = "events" /\ pass'.defs = {Key(d) : d \in Active(rows)}
      BY <1>1, <3>1 DEF Pass
    <3>3. QED
      BY <3>1, <3>2
  <2>3. CASE InsertEvents
    BY <1>1, <2>3 DEF InsertEvents, Pass
  <2>4. CASE InsertDerived
    BY <1>1, <2>4 DEF InsertDerived, Pass
  <2>5. CASE RecordCommit
    BY <1>1, <2>5 DEF RecordCommit, Pass, PassFits
  <2>6. CASE AdvanceWatermarks
    BY <1>1, <2>6 DEF AdvanceWatermarks, Pass, PassFits, NoPass
  <2>7. CASE Crash
    BY <2>7 DEF Crash, NoPass, serving
  <2>8. QED
    BY <1>6, <2>1, <2>2, <2>3, <2>4, <2>5, <2>6, <2>7 DEF Materializer
<1>7. QED
  BY <1>2, <1>3, <1>4, <1>5, <1>6 DEF Next

LEMMA PassFitsStep ==
  ASSUME TypeOK, TableFits, PassFits, [Next]_vars
  PROVE  PassFits'
<1>1. tokens \subseteq tokens' /\ missed \subseteq missed'
  BY Growing
<1>2. 1..served' \subseteq tokens'
  <2>1. served \in Nat
    BY DEF TypeOK
  <2>2. served' = served \/ (served' = served + 1 /\ served + 1 \in tokens)
    BY PassSteps
  <2>3. 1..served' \subseteq 1..served \cup {served'}
    BY <2>1, <2>2
  <2>4. QED
    BY <1>1, <2>1, <2>2, <2>3 DEF PassFits
<1>3. pass'.pc \in {"record", "mark"} => served' + 1 \in tokens'
  BY PassSteps
<1>4. ASSUME pass'.pc \notin {"idle", "listed"}, NEW d \in Active(rows'), IsUser(d.id)
      PROVE  Key(d) \in pass'.defs \cup missed'
  <2>1. CASE rows' = rows /\ pass'.defs = {Key(c) : c \in Active(rows)}
    BY <1>4, <2>1
  <2>2. CASE pass.pc \notin {"idle", "listed"} /\ pass'.defs = pass.defs
    <3>1. CASE d \in Active(rows)
      BY <1>1, <1>4, <2>2, <3>1 DEF PassFits
    <3>2. CASE d \notin Active(rows)
      <4>1. missed' = Race(d)
        BY <1>4, <3>2, NewlyActive
      <4>2. QED
        BY <2>2, <4>1 DEF Race
    <3>3. QED
      BY <3>1, <3>2
  <2>3. QED
    BY <1>4, <2>1, <2>2, PassSteps
<1>5. QED
  BY <1>2, <1>3, <1>4 DEF PassFits

LEMMA IndexStep == TypeOK /\ TableFits /\ IndexInv /\ [Next]_vars => IndexInv'
<1> SUFFICES ASSUME TypeOK, TableFits, IndexInv, [Next]_vars PROVE IndexInv'
  OBVIOUS
<1>1. \A r \in Requests : FillFits(req[r])'
  BY FillsFitStep
<1>2. \A m \in marks' : MarkFits(m)'
  BY MarksFitStep
<1>3. PassFits'
  BY PassFitsStep DEF IndexInv
<1>4. QED
  BY <1>1, <1>2, <1>3 DEF IndexInv

\* A materialization watermark stays true of the definitions the passes know,
\* through late commits, crashes, deduplicated inserts and deletions
\* (insert_stats, materialize_rows and active_definitions).
THEOREM WatermarksHold == Spec => []CoveredWindowIsIndexed
<1>1. Init => TypeOK /\ TableFits /\ IndexInv
  BY InitType, InitTableFits, InitIndex
<1>2. TypeOK /\ TableFits /\ IndexInv /\ [Next]_vars => (TypeOK /\ TableFits /\ IndexInv)'
  BY TypeStep, TableFitsStep, IndexStep
<1>3. TypeOK /\ IndexInv => CoveredWindowIsIndexed
  <2>1. SUFFICES ASSUME IndexInv, NEW m \in marks, m.key \notin missed, IsActive(rows, m.key[1]),
                        NEW n \in 1..served, InWindow(n, m.low, m.high), NEW o \in Range(Outputs[m.key[1][2]])
                 PROVE  [commit |-> n, key |-> m.key, output |-> o] \in index
    BY DEF CoveredWindowIsIndexed
  <2>2. n \in tokens
    BY <2>1 DEF IndexInv, PassFits
  <2>3. Filled(m.key, m.low, m.high, o)
    BY <2>1 DEF IndexInv, MarkFits, Held, Names
  <2>4. InWindow(n, m.low, m.high) /\ \A k \in tokens :
            InWindow(k, m.low, m.high) => [commit |-> k, key |-> m.key, output |-> o] \in index
    BY <2>1, <2>3 DEF Filled
  <2>5. QED
    BY <2>2, <2>4
<1>4. QED
  BY <1>1, <1>2, <1>3, PTL DEF Spec

-----------------------------------------------------------------------------
(* Queries that a watermark promotes. *)

Proven(key, low, high) == \E m \in marks : m.key = key /\ m.low <= low /\ m.high >= high

\* A query relies on marks over its window that are still there, and looks for an
\* output of the definition.
QueryFits ==
  /\ query.floor <= served
  /\ query.pc \in {"fresh", "catalog"} => \A key \in query.proven : Proven(key, query.low, query.high)
  /\ query.pc = "run" /\ query.by = "watermark" =>
       Proven(query.key, query.low, query.high) /\ query.output \in Names(query.key)

LEMMA QueryFitsStep ==
  ASSUME TypeOK, TableFits, IndexInv, QueryFits, [Next]_vars
  PROVE  QueryFits'
<1>1. query \in PathQuery /\ served \in Nat /\ served' \in Nat /\ query.floor \in Nat
  BY TypeStep DEF TypeOK, PathQuery
<1>2. marks \subseteq marks'
  BY MarksFitStep
<1>3. served <= served'
  BY <1>1, PassSteps DEF IndexInv
<1>4. \A key, low, high : Proven(key, low, high) => Proven(key, low, high)'
  BY <1>2 DEF Proven
<1>5. CASE UNCHANGED query
  <2>1. query.floor <= served'
    BY <1>1, <1>3 DEF QueryFits
  <2>2. PICK q : q = query
    OBVIOUS
  <2>3. q.pc \in {"fresh", "catalog"} => \A key \in q.proven : Proven(key, q.low, q.high)'
    BY <1>4, <2>2 DEF QueryFits
  <2>4. q.pc = "run" /\ q.by = "watermark" => Proven(q.key, q.low, q.high)' /\ q.output \in Names(q.key)
    BY <1>4, <2>2 DEF QueryFits
  <2>5. QED
    BY <1>5, <2>1, <2>2, <2>3, <2>4 DEF QueryFits, Proven, Names
<1>6. UNCHANGED query \/ (Query /\ NoWriter)
  BY DEF Next, vars, Tick, Merge, EnsureManaged, RestartWorker, Materializer, ListCommits, LoadDefinitions, InsertEvents,
         InsertDerived, RecordCommit, AdvanceWatermarks, Crash, NoDefinitions, Api, Create, InsertCreated, Delete,
         StampDeleted, InsertDeleted, Seed, ReadSeeded, InsertSeeded, Backfill, FillOutput, MarkFilled, Fail, NoServing,
         Query, ReadPaths, ReadProven, ReadFresh, ReadCatalog, Run
<1>7. CASE Query /\ NoWriter
  <2>1. served' = served /\ marks' = marks
    BY <1>7 DEF NoWriter, serving
  <2>2. SUFFICES /\ query'.floor <= served
                 /\ query'.pc \in {"fresh", "catalog"} => \A key \in query'.proven : Proven(key, query'.low, query'.high)
                 /\ query'.pc = "run" /\ query'.by = "watermark" =>
                      Proven(query'.key, query'.low, query'.high) /\ query'.output \in Names(query'.key)
    BY <2>1 DEF QueryFits, Proven, Names
  <2>3. NoQuery.pc = "idle" /\ NoQuery.floor = 0 /\ 0 <= served
    BY <1>1 DEF NoQuery
  <2>4. ASSUME NEW win \in Windows, ReadPaths(win) PROVE query'.pc = "proven" /\ query'.floor = served
    BY <2>4 DEF ReadPaths, NoQuery
  <2>5. CASE ReadProven
    <3>1. query' = [query EXCEPT !.pc = "fresh",
             !.proven = {m.key : m \in {k \in marks : k.low <= query.low /\ k.high >= query.high}}]
      BY <2>5 DEF ReadProven
    <3>2. /\ query'.pc = "fresh" /\ query'.floor = query.floor /\ query'.low = query.low /\ query'.high = query.high
          /\ query'.proven = {m.key : m \in {k \in marks : k.low <= query.low /\ k.high >= query.high}}
      BY <1>1, <3>1 DEF PathQuery
    <3>3. \A key \in query'.proven : Proven(key, query.low, query.high)
      BY <3>2 DEF Proven
    <3>4. QED
      BY <3>2, <3>3 DEF QueryFits
  <2>6. CASE ReadFresh
    <3>1. /\ query.pc = "fresh" /\ query'.pc = "catalog" /\ query'.floor = query.floor /\ query'.low = query.low
          /\ query'.high = query.high /\ query'.proven = query.proven
      BY <1>1, <2>6 DEF ReadFresh, PathQuery
    <3>2. QED
      BY <3>1 DEF QueryFits
  <2>7. ASSUME NEW d \in Active(rows), NEW o \in Range(Outputs[d.id[2]]), ReadCatalog(d, o)
        PROVE  /\ query'.floor <= served
               /\ query'.pc \notin {"fresh", "catalog"}
               /\ query'.pc = "run" /\ query'.by = "watermark" =>
                    Proven(query'.key, query'.low, query'.high) /\ query'.output \in Names(query'.key)
    <3>1. query.pc = "catalog"
      BY <2>7 DEF ReadCatalog
    <3>2. CASE Key(d) \in query.proven
      <4>1. query' = [query EXCEPT !.pc = "run", !.by = "watermark", !.key = Key(d), !.output = o]
        BY <2>7, <3>2 DEF ReadCatalog
      <4>2. /\ query'.pc = "run" /\ query'.floor = query.floor /\ query'.low = query.low /\ query'.high = query.high
            /\ query'.key = Key(d) /\ query'.output = o
        BY <1>1, <4>1 DEF PathQuery
      <4>3. Proven(Key(d), query.low, query.high)
        BY <3>1, <3>2 DEF QueryFits
      <4>4. o \in Names(Key(d))
        BY DEF Names, Key
      <4>5. QED
        BY <4>2, <4>3, <4>4 DEF QueryFits
    <3>3. CASE Key(d) \notin query.proven
      <4>1. query' = [query EXCEPT !.pc = "run", !.by = "serving", !.key = Key(d), !.output = o] \/ query' = NoQuery
        BY <2>7, <3>3 DEF ReadCatalog
      <4>2. (query'.pc = "run" /\ query'.by = "serving" /\ query'.floor = query.floor) \/ query' = NoQuery
        BY <1>1, <4>1 DEF PathQuery
      <4>3. QED
        BY <2>3, <4>2 DEF QueryFits
    <3>4. QED
      BY <3>2, <3>3
  <2>8. CASE Run
    BY <2>3, <2>8 DEF Run
  <2>9. CASE \E win \in Windows : ReadPaths(win)
    BY <1>1, <2>4, <2>9
  <2>10. QED
    BY <1>7, <2>5, <2>6, <2>7, <2>8, <2>9 DEF Query
<1>8. QED
  BY <1>5, <1>6, <1>7

\* A query that is promoted by a watermark finds each event of its window that was
\* served when it came in, unless its definition went away or the passes missed it
\* (fresh_materialized_definition_versions, event_field_catalog).
THEOREM PromotionsAreComplete == Spec => []PromotedReadsAreComplete
<1>1. Init => TypeOK /\ TableFits /\ IndexInv /\ QueryFits
  <2>1. Init => QueryFits
    BY DEF Init, NoQuery, QueryFits
  <2>2. QED
    BY <2>1, InitType, InitTableFits, InitIndex
<1>2. /\ TypeOK /\ TableFits /\ IndexInv /\ QueryFits /\ [Next]_vars
      => (TypeOK /\ TableFits /\ IndexInv /\ QueryFits)'
  BY TypeStep, TableFitsStep, IndexStep, QueryFitsStep
<1>3. TypeOK /\ IndexInv /\ QueryFits => PromotedReadsAreComplete
  <2>1. SUFFICES ASSUME TypeOK, IndexInv, QueryFits, query.pc = "run", query.by = "watermark",
                        Held(query.key), NEW n \in 1..query.floor, InWindow(n, query.low, query.high)
                 PROVE  n \in Found
    BY DEF PromotedReadsAreComplete, Complete, Answers, Held
  <2>2. PICK m \in marks : m.key = query.key /\ m.low <= query.low /\ m.high >= query.high
    BY <2>1 DEF QueryFits, Proven
  <2>3. query.output \in Names(query.key)
    BY <2>1 DEF QueryFits
  <2>4. /\ query.floor \in Nat /\ served \in Nat /\ query.floor <= served /\ query.low \in Ends /\ query.high \in Ends
        /\ m.low \in Ends /\ m.high \in Ends /\ tokens \subseteq events /\ events \subseteq 1..MaxCommits
        /\ lake \in [1..MaxCommits -> Times]
    BY <2>1 DEF TypeOK, PathQuery, QueryFits
  <2>5. n \in tokens
    <3>1. n \in 1..served
      BY <2>4
    <3>2. QED
      BY <2>1, <3>1 DEF IndexInv, PassFits
  <2>6. InWindow(n, m.low, m.high)
    <3>1. n \in 1..MaxCommits
      BY <2>4, <2>5
    <3>2. lake[n] \in Nat
      BY <2>4, <3>1, TimesAssumption
    <3>3. Ends \subseteq Nat
      BY TimesAssumption DEF Ends
    <3>4. m.low \in Nat /\ m.high \in Nat /\ query.low \in Nat /\ query.high \in Nat
      BY <2>4, <3>3
    <3>5. lake[n] >= query.low /\ lake[n] <= query.high
      BY <2>1 DEF InWindow
    <3>6. QED
      BY <2>2, <3>2, <3>4, <3>5 DEF InWindow
  <2>7. [commit |-> n, key |-> query.key, output |-> query.output] \in index
    <3>1. Filled(m.key, m.low, m.high, query.output)
      BY <2>1, <2>2, <2>3 DEF IndexInv, MarkFits
    <3>2. QED
      BY <2>2, <2>5, <2>6, <3>1 DEF Filled
  <2>8. n \in events
    BY <2>4, <2>5
  <2>9. QED
    BY <2>1, <2>7, <2>8 DEF Found
<1>4. QED
  BY <1>1, <1>2, <1>3, PTL DEF Spec

-----------------------------------------------------------------------------
(* EventList: the order of events. *)

Directions == {"asc", "desc"}

\* Either direction is a strict total order of the events.
LEMMA OrderOfEvents ==
  ASSUME NEW dir \in Directions
  PROVE  /\ \A a \in AllEvents : ~Precedes(dir, a, a)
         /\ \A a, b, c \in AllEvents : Precedes(dir, a, b) /\ Precedes(dir, b, c) => Precedes(dir, a, c)
         /\ \A a, b \in AllEvents : a = b \/ Precedes(dir, a, b) \/ Precedes(dir, b, a)
<1> USE DEF Precedes, Earlier, Later, Directions
<1>1. \A a \in AllEvents : ~Precedes(dir, a, a)
  BY EventsAssumption
<1>2. \A a, b, c \in AllEvents : Precedes(dir, a, b) /\ Precedes(dir, b, c) => Precedes(dir, a, c)
  BY EventsAssumption
<1>3. \A a, b \in AllEvents : a = b \/ Precedes(dir, a, b) \/ Precedes(dir, b, a)
  BY EventsAssumption
<1>4. QED
  BY <1>1, <1>2, <1>3

\* What precedes an event of a finite set is a smaller part of it.
LEMMA PlaceIsNatural ==
  ASSUME NEW S \in SUBSET AllEvents, IsFiniteSet(S), NEW dir \in Directions, NEW e \in S
  PROVE  Place(S, dir, e) \in 1..Cardinality(S)
<1> DEFINE before == {d \in S : Precedes(dir, d, e)}
<1>1. IsFiniteSet(before) /\ Cardinality(before) <= Cardinality(S) /\ (Cardinality(S) = Cardinality(before) => S = before)
  BY FS_Subset
<1>2. Cardinality(before) \in Nat /\ Cardinality(S) \in Nat
  BY <1>1, FS_CardinalityType
<1>3. e \notin before
  BY OrderOfEvents
<1>4. QED
  BY <1>1, <1>2, <1>3 DEF Place

LEMMA PlacesDiffer ==
  ASSUME NEW S \in SUBSET AllEvents, IsFiniteSet(S), NEW dir \in Directions,
         NEW a \in S, NEW b \in S, Precedes(dir, a, b)
  PROVE  Place(S, dir, a) < Place(S, dir, b)
<1> DEFINE before(e) == {d \in S : Precedes(dir, d, e)}
<1>1. before(b) \in SUBSET S /\ before(a) \subseteq before(b)
  BY OrderOfEvents
<1>2. a \in before(b) /\ a \notin before(a)
  BY OrderOfEvents
<1>3. IsFiniteSet(before(b)) /\ IsFiniteSet(before(a))
  BY <1>1, FS_Subset
<1>4. Cardinality(before(a)) <= Cardinality(before(b)) /\ (Cardinality(before(b)) = Cardinality(before(a)) => before(b) = before(a))
  BY <1>1, <1>3, FS_Subset
<1>5. Cardinality(before(a)) \in Nat /\ Cardinality(before(b)) \in Nat
  BY <1>3, FS_CardinalityType
<1>6. QED
  BY <1>2, <1>4, <1>5 DEF Place

\* Each place of a finite set is taken by one event.
LEMMA PlacesAreTaken ==
  ASSUME NEW S \in SUBSET AllEvents, IsFiniteSet(S), NEW dir \in Directions, NEW i \in 1..Cardinality(S)
  PROVE  \E e \in S : Place(S, dir, e) = i
<1> DEFINE place == [e \in S |-> Place(S, dir, e)]
<1>1. Cardinality(S) \in Nat
  BY FS_CardinalityType
<1>2. IsFiniteSet(1..Cardinality(S)) /\ Cardinality(1..Cardinality(S)) = Cardinality(S)
  <2>1. Cardinality(S) \in Int /\ 1 \in Int
    BY <1>1
  <2>2. QED
    BY <2>1, <1>1, FS_Interval
<1>3. place \in [S -> 1..Cardinality(S)]
  BY PlaceIsNatural
<1>4. \A a, b \in S : Place(S, dir, a) = Place(S, dir, b) => a = b
  <2> SUFFICES ASSUME NEW a \in S, NEW b \in S, Place(S, dir, a) = Place(S, dir, b), a # b
               PROVE  FALSE
    OBVIOUS
  <2>1. Precedes(dir, a, b) \/ Precedes(dir, b, a)
    BY OrderOfEvents
  <2>2. Place(S, dir, a) \in Nat /\ Place(S, dir, b) \in Nat
    BY PlaceIsNatural, <1>1
  <2>3. Place(S, dir, a) < Place(S, dir, b) \/ Place(S, dir, b) < Place(S, dir, a)
    BY <2>1, PlacesDiffer
  <2>4. QED
    BY <2>2, <2>3
<1>5. place \in Injection(S, 1..Cardinality(S))
  BY <1>3, <1>4 DEF Injection, IsInjective
<1>6. place \in Surjection(S, 1..Cardinality(S))
  BY <1>2, <1>5, FS_Injection
<1>7. QED
  BY <1>6 DEF Surjection

\* ORDER BY lists every event of a finite set once, in the direction.
LEMMA OrderedEvents ==
  ASSUME NEW S \in SUBSET AllEvents, IsFiniteSet(S), NEW dir \in Directions
  PROVE  /\ InOrder(S, dir) \in Seq(S) /\ Len(InOrder(S, dir)) = Cardinality(S)
         /\ DOMAIN InOrder(S, dir) = 1..Cardinality(S)
         /\ Range(InOrder(S, dir)) = S
         /\ \A m, n \in DOMAIN InOrder(S, dir) : m < n => Precedes(dir, InOrder(S, dir)[m], InOrder(S, dir)[n])
<1> DEFINE s == InOrder(S, dir)
<1>1. Cardinality(S) \in Nat
  BY FS_CardinalityType
<1>2. DOMAIN s = 1..Cardinality(S) /\ \A i \in 1..Cardinality(S) : s[i] \in S /\ Place(S, dir, s[i]) = i
  BY PlacesAreTaken DEF InOrder
<1>3. s = [i \in 1..Cardinality(S) |-> s[i]]
  BY DEF InOrder
<1>4. s \in Seq(S) /\ Len(s) = Cardinality(S)
  BY <1>1, <1>2, <1>3
<1>5. \A m, n \in DOMAIN s : m < n => Precedes(dir, s[m], s[n])
  <2> SUFFICES ASSUME NEW m \in DOMAIN s, NEW n \in DOMAIN s, m < n
               PROVE  Precedes(dir, s[m], s[n])
    OBVIOUS
  <2>1. s[m] \in S /\ s[n] \in S /\ Place(S, dir, s[m]) = m /\ Place(S, dir, s[n]) = n
    BY <1>2
  <2>2. ~Precedes(dir, s[n], s[m])
    <3>1. SUFFICES ASSUME Precedes(dir, s[n], s[m]) PROVE FALSE
      OBVIOUS
    <3>2. Place(S, dir, s[n]) < Place(S, dir, s[m])
      BY <3>1, <2>1, PlacesDiffer
    <3>3. QED
      BY <3>2, <2>1, <1>1, <1>2
  <2>3. s[m] # s[n]
    BY <2>1, <1>1, <1>2
  <2>4. QED
    BY <2>1, <2>2, <2>3, OrderOfEvents
<1>6. S \subseteq Range(s)
  <2> SUFFICES ASSUME NEW e \in S PROVE \E i \in DOMAIN s : s[i] = e
    BY DEF Range
  <2>1. PICK i \in 1..Cardinality(S) : i = Place(S, dir, e)
    BY PlaceIsNatural
  <2>2. s[i] \in S /\ Place(S, dir, s[i]) = i
    BY <1>2
  <2>3. ~Precedes(dir, s[i], e) /\ ~Precedes(dir, e, s[i])
    <3>1. i \in Nat
      BY <1>1
    <3>2. Precedes(dir, s[i], e) => Place(S, dir, s[i]) < Place(S, dir, e)
      BY <2>2, PlacesDiffer
    <3>3. Precedes(dir, e, s[i]) => Place(S, dir, e) < Place(S, dir, s[i])
      BY <2>2, PlacesDiffer
    <3>4. QED
      BY <3>1, <3>2, <3>3, <2>1, <2>2
  <2>4. s[i] = e
    BY <2>2, <2>3, OrderOfEvents
  <2>5. QED
    BY <2>4, <1>2
<1>7. Range(s) \subseteq S
  BY <1>2 DEF Range
<1>8. QED
  BY <1>1, <1>2, <1>4, <1>5, <1>6, <1>7

-----------------------------------------------------------------------------
(* A page is the part of the result next to its cursor. *)

Matching(catalog, S, q, cursor) == {e \in Selected(catalog, S, q) : PageFilter(q, cursor, e)}

IsRequest(q) == q.direction \in Directions /\ q.limit \in Nat \ {0}

Sorted(q, s) == \A m, n \in DOMAIN s : m < n => Precedes(q.direction, s[m], s[n])

LEMMA QueryOrderType ==
  ASSUME NEW q, IsRequest(q), NEW cursor
  PROVE  QueryOrder(q, cursor) \in Directions
BY DEF QueryOrder, Directions, IsRequest

LEMMA PageOfResult ==
  ASSUME NEW S \in SUBSET AllEvents, IsFiniteSet(S), NEW q, IsRequest(q), NEW cursor, NEW catalog
  PROVE  LET page == EventsPage(catalog, S, q, cursor)
         IN  /\ page \in Seq(AllEvents) /\ Range(page) \subseteq Matching(catalog, S, q, cursor)
             /\ Sorted(q, page)
             /\ \A e \in Matching(catalog, S, q, cursor) \ Range(page) :
                    /\ Len(page) >= q.limit
                    /\ \A a \in Range(page) : Precedes(QueryOrder(q, cursor), a, e)
<1> DEFINE found == Matching(catalog, S, q, cursor)
           order == QueryOrder(q, cursor)
           s == InOrder(found, order)
           first == {s[i] : i \in {j \in DOMAIN s : j <= q.limit}}
           page == EventsPage(catalog, S, q, cursor)
<1>1. found \in SUBSET S /\ found \in SUBSET AllEvents /\ IsFiniteSet(found)
  <2>1. found \in SUBSET S
    BY DEF Matching, Selected
  <2>2. QED
    BY <2>1, FS_Subset
<1>2. order \in Directions /\ q.direction \in Directions /\ q.limit \in Nat \ {0}
  BY QueryOrderType DEF IsRequest
<1>3. /\ DOMAIN s = 1..Cardinality(found) /\ Range(s) = found
      /\ \A m, n \in DOMAIN s : m < n => Precedes(order, s[m], s[n])
  BY <1>1, <1>2, OrderedEvents
<1>4. Cardinality(found) \in Nat /\ \A i \in DOMAIN s : s[i] \in found
  BY <1>1, <1>3, FS_CardinalityType DEF Range
<1>5. first \in SUBSET found
  BY <1>4
<1>6. first \in SUBSET AllEvents /\ IsFiniteSet(first) /\ Cardinality(first) \in Nat
  <2>1. IsFiniteSet(first)
    BY <1>1, <1>5, FS_Subset
  <2>2. QED
    BY <2>1, <1>1, <1>5, FS_CardinalityType
<1>7. page = InOrder(first, q.direction)
  BY DEF EventsPage, Matching
<1>8. /\ page \in Seq(first) /\ Len(page) = Cardinality(first) /\ Range(page) = first
      /\ \A m, n \in DOMAIN page : m < n => Precedes(q.direction, page[m], page[n])
  BY <1>2, <1>6, <1>7, OrderedEvents
<1>9. ASSUME NEW e \in found \ first
      PROVE  Len(page) >= q.limit /\ \A a \in first : Precedes(order, a, e)
  <2>1. PICK k \in DOMAIN s : s[k] = e
    BY <1>3, <1>9 DEF Range
  <2>2. k > q.limit /\ k \in Nat
    BY <2>1, <1>2, <1>3, <1>4
  <2>3. \A a \in first : Precedes(order, a, e)
    <3> SUFFICES ASSUME NEW i \in DOMAIN s, i <= q.limit PROVE Precedes(order, s[i], e)
      OBVIOUS
    <3>1. i < k
      BY <2>2, <1>2, <1>3, <1>4
    <3>2. QED
      BY <3>1, <2>1, <1>3
  <2>4. Cardinality(first) = q.limit
    <3> DEFINE g == [i \in 1..q.limit |-> s[i]]
    <3>1. 1..q.limit = {j \in DOMAIN s : j <= q.limit}
      BY <2>2, <1>2, <1>3, <1>4
    <3>2. first = {s[i] : i \in 1..q.limit}
      BY <3>1
    <3>3. g \in Surjection(1..q.limit, first)
      BY <3>2 DEF Surjection
    <3>4. g \in Injection(1..q.limit, first)
      <4>1. \A m, n \in 1..q.limit : s[m] = s[n] => m = n
        <5> SUFFICES ASSUME NEW m \in 1..q.limit, NEW n \in 1..q.limit, s[m] = s[n], m # n PROVE FALSE
          OBVIOUS
        <5>1. m \in DOMAIN s /\ n \in DOMAIN s /\ m \in Int /\ n \in Int
          BY <3>1
        <5>2. s[m] \in AllEvents /\ s[n] \in AllEvents
          BY <5>1, <1>1, <1>4
        <5>3. Precedes(order, s[m], s[n]) \/ Precedes(order, s[n], s[m])
          BY <5>1, <1>3
        <5>4. QED
          BY <5>2, <5>3, <1>2, OrderOfEvents
      <4>2. QED
        BY <3>2, <4>1 DEF Injection, IsInjective
    <3>5. IsFiniteSet(1..q.limit) /\ Cardinality(1..q.limit) = q.limit
      <4>1. q.limit \in Int /\ 1 \in Int /\ ~(1 > q.limit) /\ q.limit - 1 + 1 = q.limit
        BY <1>2
      <4>2. QED
        BY <4>1, FS_Interval
    <3>6. ExistsBijection(1..q.limit, first)
      BY <3>3, <3>4 DEF ExistsBijection, Bijection
    <3>7. QED
      BY <3>5, <3>6, FS_Bijection
  <2>5. QED
    BY <2>3, <2>4, <1>2, <1>8
<1>10. page \in Seq(AllEvents)
  BY <1>6, <1>8
<1>11. QED
  BY <1>5, <1>8, <1>9, <1>10 DEF Sorted

-----------------------------------------------------------------------------
(* The list as a function of its request, its pages and the events known.  *)

Page == [events : Seq(AllEvents),
         cursor : [side : {"none", "around", "before", "after"}, at : Nat, id : Nat],
         catalog : SUBSET FieldDefinitions]

PageAt(catalog, S, q, cursor) ==
    [events |-> EventsPage(catalog, S, q, cursor), cursor |-> cursor, catalog |-> catalog]

ShownOn(pages) == UNION {Range(pages[i].events) : i \in DOMAIN pages}
OwedTo(q, pages, known) == {e \in known : \A i \in DOMAIN pages : Selects(pages[i].catalog, q, e)}

OffersNext(q, pages) == pages # <<>> /\ Full(q, Last(pages))
OffersPrevious(q, pages) ==
    /\ pages # <<>> /\ Head(pages).events # <<>>
    /\ \/ Head(pages).cursor.side = Upward(q) /\ Full(q, Head(pages))
       \/ Head(pages).cursor.side = "around"

Follow(q, pages) ==
    /\ \A i \in DOMAIN pages : Sorted(q, pages[i].events)
    /\ \A i, j \in DOMAIN pages : i < j =>
            \A a \in Range(pages[i].events), b \in Range(pages[j].events) : Precedes(q.direction, a, b)

CutBelow(q, pages) ==
    Len(pages) = 1 /\ Head(pages).cursor.side = Upward(q) /\ ~Full(q, Head(pages))

NoHole(q, pages, known) ==
    \A e \in OwedTo(q, pages, known) \ ShownOn(pages) :
        \/ OffersPrevious(q, pages) /\ \A a \in ShownOn(pages) : Precedes(q.direction, e, a)
        \/ OffersNext(q, pages) /\ \A a \in ShownOn(pages) : Precedes(q.direction, a, e)
        \/ ShownOn(pages) = {} /\ \E i \in DOMAIN pages : pages[i].cursor.side = "around"
        \/ CutBelow(q, pages) /\ \A a \in ShownOn(pages) : Precedes(q.direction, a, e)

LEMMA ResultOfPages ==
  PagesAreTheResult <=> Follow(list.request, list.pages) /\ NoHole(list.request, list.pages, list.known)
BY DEF PagesAreTheResult, Follow, Sorted, NoHole, ShownOn, Shown, OwedTo, Owed, OffersNext, HasNext,
       OffersPrevious, HasPrevious, CutBelow, CutOff

\* The first page of a list that is opened or asked for again.
LEMMA FirstPage ==
  ASSUME NEW S \in SUBSET AllEvents, IsFiniteSet(S), NEW q, IsRequest(q), NEW catalog,
         NEW cursor, cursor.side \in {"none", "around", Upward(q)}, cursor.at \in Nat, cursor.id \in Nat
  PROVE  LET pages == <<PageAt(catalog, S, q, cursor)>>
         IN  Follow(q, pages) /\ NoHole(q, pages, S)
<1> DEFINE page == EventsPage(catalog, S, q, cursor)
           pages == <<PageAt(catalog, S, q, cursor)>>
           found == Matching(catalog, S, q, cursor)
<1>1. /\ page \in Seq(AllEvents) /\ Range(page) \subseteq found /\ Sorted(q, page)
      /\ \A e \in found \ Range(page) :
            /\ Len(page) >= q.limit
            /\ \A a \in Range(page) : Precedes(QueryOrder(q, cursor), a, e)
  BY PageOfResult
<1>2. cursor.side # Upward(q) => QueryOrder(q, cursor) = q.direction
  BY DEF QueryOrder, Upward, IsRequest, Directions
<1>3. /\ DOMAIN pages = {1} /\ Len(pages) = 1 /\ pages # <<>> /\ pages[1] = PageAt(catalog, S, q, cursor)
      /\ Head(pages) = pages[1] /\ Last(pages) = pages[1]
  BY DEF Last
<1>4. /\ pages[1].events = page /\ pages[1].cursor = cursor /\ pages[1].catalog = catalog
  BY <1>3 DEF PageAt
<1> HIDE DEF pages, page, found
<1>5. ShownOn(pages) = Range(page)
  BY <1>3, <1>4 DEF ShownOn
<1>6. Follow(q, pages)
  BY <1>1, <1>3, <1>4 DEF Follow
<1>7. ASSUME NEW e \in OwedTo(q, pages, S) \ ShownOn(pages)
      PROVE  \/ OffersPrevious(q, pages) /\ \A a \in ShownOn(pages) : Precedes(q.direction, e, a)
             \/ OffersNext(q, pages) /\ \A a \in ShownOn(pages) : Precedes(q.direction, a, e)
             \/ ShownOn(pages) = {} /\ \E i \in DOMAIN pages : pages[i].cursor.side = "around"
             \/ CutBelow(q, pages) /\ \A a \in ShownOn(pages) : Precedes(q.direction, a, e)
  <2>1. e \in S /\ Selects(catalog, q, e) /\ e \notin Range(page) /\ e \in AllEvents
    BY <1>3, <1>4, <1>5, <1>7 DEF OwedTo
  <2>2. CASE PageFilter(q, cursor, e) /\ cursor.side # Upward(q)
    <3>1. e \in found
      BY <2>1, <2>2 DEF found, Matching, Selected
    <3>2. Len(page) >= q.limit /\ \A a \in Range(page) : Precedes(q.direction, a, e)
      BY <3>1, <2>1, <2>2, <1>1, <1>2
    <3>3. OffersNext(q, pages)
      BY <3>2, <1>3, <1>4 DEF OffersNext, Full
    <3>4. QED
      BY <3>2, <3>3, <1>5
  <2>3. CASE ~PageFilter(q, cursor, e) /\ cursor.side # Upward(q)
    <3>1. cursor.side = "around"
      BY <2>3 DEF PageFilter
    <3>2. \A a \in Range(page) : PageFilter(q, cursor, a) /\ a \in AllEvents
      BY <1>1 DEF found, Matching, Selected
    <3>3. \A a \in Range(page) : Precedes(q.direction, e, a)
      BY <2>1, <2>3, <3>1, <3>2, EventsAssumption DEF PageFilter, Precedes, Earlier, Later, IsRequest, Directions
    <3>4. CASE page = <<>>
      <4>1. Range(page) = {}
        BY <3>4 DEF Range
      <4>2. QED
        BY <4>1, <3>1, <1>3, <1>4, <1>5
    <3>5. CASE page # <<>>
      <4>1. OffersPrevious(q, pages)
        BY <3>1, <3>5, <1>3, <1>4 DEF OffersPrevious
      <4>2. QED
        BY <4>1, <3>3, <1>5
    <3>6. QED
      BY <3>4, <3>5
  <2>4. CASE PageFilter(q, cursor, e) /\ cursor.side = Upward(q)
    <3>1. e \in found
      BY <2>1, <2>4 DEF found, Matching, Selected
    <3>2. Len(page) >= q.limit /\ \A a \in Range(page) : a \in AllEvents /\ Precedes(QueryOrder(q, cursor), a, e)
      BY <3>1, <2>1, <1>1 DEF found, Matching, Selected
    <3>3. \A a \in Range(page) : Precedes(q.direction, e, a)
      BY <3>2, <2>4 DEF QueryOrder, Upward, Precedes, Later, IsRequest, Directions
    <3>4. page # <<>>
      BY <3>2 DEF IsRequest
    <3>5. OffersPrevious(q, pages)
      BY <3>2, <3>4, <2>4, <1>3, <1>4 DEF OffersPrevious, Full
    <3>6. QED
      BY <3>3, <3>5, <1>5
  <2>5. CASE ~PageFilter(q, cursor, e) /\ cursor.side = Upward(q)
    <3>1. \A a \in Range(page) : PageFilter(q, cursor, a) /\ a \in AllEvents
      BY <1>1 DEF found, Matching, Selected
    <3>2. \A a \in Range(page) : Precedes(q.direction, a, e)
      BY <2>1, <2>5, <3>1, EventsAssumption DEF PageFilter, Upward, Precedes, Earlier, Later, IsRequest, Directions
    <3>3. OffersNext(q, pages) \/ CutBelow(q, pages)
      BY <2>5, <1>3, <1>4 DEF OffersNext, CutBelow
    <3>4. QED
      BY <3>2, <3>3, <1>5
  <2>6. QED
    BY <2>2, <2>3, <2>4, <2>5
<1>8. NoHole(q, pages, S)
  BY <1>7 DEF NoHole
<1>9. QED
  BY <1>6, <1>8 DEF pages

\* A page below the last one.
LEMMA NextPage ==
  ASSUME NEW S \in SUBSET AllEvents, IsFiniteSet(S), NEW q, IsRequest(q), NEW catalog,
         NEW pages \in Seq(Page), OffersNext(q, pages), NEW known \in SUBSET S,
         Follow(q, pages), NoHole(q, pages, known)
  PROVE  LET new == Append(pages, PageAt(catalog, S, q, CursorAt(Downward(q), Last(Last(pages).events))))
         IN  Follow(q, new) /\ NoHole(q, new, known)
<1> DEFINE c == Last(Last(pages).events)
           cursor == CursorAt(Downward(q), c)
           page == EventsPage(catalog, S, q, cursor)
           found == Matching(catalog, S, q, cursor)
           new == Append(pages, PageAt(catalog, S, q, cursor))
           n == Len(pages)
<1>1. /\ page \in Seq(AllEvents) /\ Range(page) \subseteq found /\ Sorted(q, page)
      /\ \A e \in found \ Range(page) :
            /\ Len(page) >= q.limit
            /\ \A a \in Range(page) : Precedes(QueryOrder(q, cursor), a, e)
  BY PageOfResult
<1>2. QueryOrder(q, cursor) = q.direction
  BY DEF QueryOrder, CursorAt, Downward, IsRequest, Directions
<1>3. /\ n \in Nat \ {0} /\ DOMAIN pages = 1..n /\ Last(pages) = pages[n] /\ Head(pages) = pages[1]
      /\ \A i \in 1..n : pages[i] \in Page /\ pages[i].events \in Seq(AllEvents)
  <2>1. pages # <<>> /\ n \in Nat /\ DOMAIN pages = 1..n
    BY DEF OffersNext
  <2>2. n # 0
    BY <2>1, EmptySeq
  <2>3. Last(pages) = pages[n] /\ Head(pages) = pages[1]
    BY <2>1 DEF Last
  <2>4. \A i \in 1..n : pages[i] \in Page
    BY <2>1, ElementOfSeq
  <2>5. QED
    BY <2>1, <2>2, <2>3, <2>4 DEF Page
<1>4. /\ DOMAIN new = 1..(n + 1) /\ Len(new) = n + 1 /\ new # <<>> /\ Head(new) = pages[1]
      /\ new[n + 1] = PageAt(catalog, S, q, cursor) /\ \A i \in 1..n : new[i] = pages[i]
  BY <1>3
<1>5. /\ new[n + 1].events = page /\ new[n + 1].cursor = cursor /\ new[n + 1].catalog = catalog
      /\ Last(new) = new[n + 1]
  BY <1>4 DEF PageAt, Last
<1>6. /\ Len(pages[n].events) \in Nat \ {0} /\ c = pages[n].events[Len(pages[n].events)]
      /\ c \in Range(pages[n].events) /\ c \in AllEvents
  <2>1. pages[n].events \in Seq(AllEvents) /\ Len(pages[n].events) >= q.limit
    BY <1>3 DEF OffersNext, Full
  <2>2. Len(pages[n].events) \in Nat \ {0}
    BY <2>1 DEF IsRequest
  <2>3. QED
    BY <2>1, <2>2, <1>3 DEF Range, Last
<1> HIDE DEF c, cursor, page, found, new, n
<1>7. ShownOn(new) = ShownOn(pages) \union Range(page)
  BY <1>3, <1>4, <1>5 DEF ShownOn
<1>8. ShownOn(pages) \subseteq AllEvents /\ c \in ShownOn(pages)
  BY <1>3, <1>6 DEF ShownOn, Range
<1>9. \A a \in ShownOn(pages) : a = c \/ Precedes(q.direction, a, c)
  <2> SUFFICES ASSUME NEW i \in 1..n, NEW a \in Range(pages[i].events)
               PROVE  a = c \/ Precedes(q.direction, a, c)
    BY <1>3 DEF ShownOn
  <2>1. CASE i # n
    BY <2>1, <1>3, <1>6 DEF Follow
  <2>2. CASE i = n
    <3>1. PICK m \in DOMAIN pages[n].events : a = pages[n].events[m]
      BY <2>2 DEF Range
    <3>2. DOMAIN pages[n].events = 1..Len(pages[n].events)
      BY <1>3
    <3>3. QED
      BY <3>1, <3>2, <1>3, <1>6 DEF Follow, Sorted
  <2>3. QED
    BY <2>1, <2>2
<1>10. \A e \in AllEvents : PageFilter(q, cursor, e) <=> Precedes(q.direction, c, e)
  BY <1>6, EventsAssumption DEF PageFilter, cursor, CursorAt, Downward, Precedes, Earlier, Later, IsRequest, Directions
<1>11. \A e \in Range(page) : e \in AllEvents /\ Precedes(q.direction, c, e)
  BY <1>1, <1>10 DEF found, Matching, Selected
<1>12. \A a \in ShownOn(pages), e \in AllEvents : Precedes(q.direction, c, e) => Precedes(q.direction, a, e)
  BY <1>6, <1>8, <1>9, OrderOfEvents DEF IsRequest
<1>13. Follow(q, new)
  <2>1. \A i \in DOMAIN new : Sorted(q, new[i].events)
    BY <1>1, <1>3, <1>4, <1>5 DEF Follow
  <2>2. ASSUME NEW i \in DOMAIN new, NEW j \in DOMAIN new, i < j,
               NEW a \in Range(new[i].events), NEW b \in Range(new[j].events)
        PROVE  Precedes(q.direction, a, b)
    <3>1. i \in 1..n /\ new[i] = pages[i] /\ (j \in 1..n \/ j = n + 1)
      BY <2>2, <1>3, <1>4
    <3>2. CASE j \in 1..n
      BY <3>1, <3>2, <2>2, <1>3, <1>4 DEF Follow
    <3>3. CASE j = n + 1
      <4>1. a \in ShownOn(pages)
        BY <3>1, <2>2, <1>3 DEF ShownOn
      <4>2. b \in Range(page)
        BY <3>3, <2>2, <1>5
      <4>3. QED
        BY <4>1, <4>2, <1>11, <1>12
    <3>4. QED
      BY <3>1, <3>2, <3>3
  <2>3. QED
    BY <2>1, <2>2 DEF Follow
<1>14. ASSUME NEW e \in OwedTo(q, new, known) \ ShownOn(new)
       PROVE  \/ OffersPrevious(q, new) /\ \A a \in ShownOn(new) : Precedes(q.direction, e, a)
              \/ OffersNext(q, new) /\ \A a \in ShownOn(new) : Precedes(q.direction, a, e)
  <2>1. e \in OwedTo(q, pages, known) \ ShownOn(pages) /\ e \in S /\ e \in AllEvents
        /\ Selects(catalog, q, e) /\ e \notin Range(page)
    BY <1>3, <1>4, <1>5, <1>7, <1>14 DEF OwedTo
  <2>2. CASE OffersPrevious(q, pages) /\ \A a \in ShownOn(pages) : Precedes(q.direction, e, a)
    <3>1. OffersPrevious(q, new)
      BY <2>2, <1>3, <1>4 DEF OffersPrevious
    <3>2. Precedes(q.direction, e, c)
      BY <2>2, <1>8
    <3>3. \A a \in Range(page) : Precedes(q.direction, e, a)
      BY <3>2, <2>1, <1>6, <1>11, OrderOfEvents DEF IsRequest
    <3>4. QED
      BY <3>1, <3>3, <2>2, <1>7
  <2>3. CASE OffersNext(q, pages) /\ \A a \in ShownOn(pages) : Precedes(q.direction, a, e)
    <3>1. e \in found
      BY <2>1, <2>3, <1>8, <1>10 DEF found, Matching, Selected
    <3>2. Len(page) >= q.limit /\ \A a \in Range(page) : Precedes(q.direction, a, e)
      BY <3>1, <2>1, <1>1, <1>2
    <3>3. OffersNext(q, new)
      BY <3>2, <1>4, <1>5 DEF OffersNext, Full
    <3>4. QED
      BY <3>2, <3>3, <2>3, <1>7
  <2>4. ~CutBelow(q, pages)
    BY <1>3 DEF CutBelow, OffersNext, OffersPrevious, Upward
  <2>5. QED
    BY <2>1, <2>2, <2>3, <2>4, <1>8 DEF NoHole
<1>15. NoHole(q, new, known)
  BY <1>14 DEF NoHole
<1>16. QED
  BY <1>13, <1>15 DEF new, cursor, c

\* A page above the first one.
LEMMA PreviousPage ==
  ASSUME NEW S \in SUBSET AllEvents, IsFiniteSet(S), NEW q, IsRequest(q), NEW catalog,
         NEW pages \in Seq(Page), OffersPrevious(q, pages), NEW known \in SUBSET S,
         Follow(q, pages), NoHole(q, pages, known)
  PROVE  LET new == <<PageAt(catalog, S, q, CursorAt(Upward(q), Head(Head(pages).events)))>> \o pages
         IN  Follow(q, new) /\ NoHole(q, new, known)
<1> DEFINE c == Head(Head(pages).events)
           cursor == CursorAt(Upward(q), c)
           page == EventsPage(catalog, S, q, cursor)
           found == Matching(catalog, S, q, cursor)
           new == <<PageAt(catalog, S, q, cursor)>> \o pages
           n == Len(pages)
<1>1. /\ page \in Seq(AllEvents) /\ Range(page) \subseteq found /\ Sorted(q, page)
      /\ \A e \in found \ Range(page) :
            /\ Len(page) >= q.limit
            /\ \A a \in Range(page) : Precedes(QueryOrder(q, cursor), a, e)
  BY PageOfResult
<1>2. \A a, b : Precedes(QueryOrder(q, cursor), a, b) <=> Precedes(q.direction, b, a)
  BY DEF QueryOrder, CursorAt, Upward, IsRequest, Directions, Precedes, Later
<1>3. /\ n \in Nat \ {0} /\ DOMAIN pages = 1..n /\ Last(pages) = pages[n] /\ Head(pages) = pages[1]
      /\ \A i \in 1..n : pages[i] \in Page /\ pages[i].events \in Seq(AllEvents)
  <2>1. pages # <<>> /\ n \in Nat /\ DOMAIN pages = 1..n
    BY DEF OffersPrevious
  <2>2. n # 0
    BY <2>1, EmptySeq
  <2>3. Last(pages) = pages[n] /\ Head(pages) = pages[1]
    BY <2>1 DEF Last
  <2>4. \A i \in 1..n : pages[i] \in Page
    BY <2>1, ElementOfSeq
  <2>5. QED
    BY <2>1, <2>2, <2>3, <2>4 DEF Page
<1>4. /\ DOMAIN new = 1..(n + 1) /\ Len(new) = n + 1 /\ new # <<>> /\ Head(new) = new[1]
      /\ new[1] = PageAt(catalog, S, q, cursor) /\ \A i \in 1..n : new[i + 1] = pages[i]
  BY <1>3
<1>5. /\ new[1].events = page /\ new[1].cursor = cursor /\ new[1].catalog = catalog
      /\ Last(new) = pages[n]
  BY <1>3, <1>4 DEF PageAt, Last
<1>6. /\ Len(pages[1].events) \in Nat \ {0} /\ c = pages[1].events[1]
      /\ c \in Range(pages[1].events) /\ c \in AllEvents
  <2>1. pages[1].events \in Seq(AllEvents) /\ pages[1].events # <<>>
    BY <1>3 DEF OffersPrevious
  <2>2. Len(pages[1].events) \in Nat \ {0}
    BY <2>1, EmptySeq
  <2>3. QED
    BY <2>1, <2>2, <1>3 DEF Range
<1> HIDE DEF c, cursor, page, found, new, n
<1>7. ShownOn(new) = ShownOn(pages) \union Range(page)
  <2>1. \A i \in DOMAIN new : i = 1 \/ (i - 1 \in 1..n /\ new[i] = pages[i - 1])
    BY <1>3, <1>4
  <2>2. ShownOn(new) \subseteq ShownOn(pages) \union Range(page)
    BY <2>1, <1>3, <1>5 DEF ShownOn
  <2>3. 1 \in DOMAIN new /\ \A i \in 1..n : i + 1 \in DOMAIN new /\ new[i + 1] = pages[i]
    BY <1>3, <1>4
  <2>4. ShownOn(pages) \union Range(page) \subseteq ShownOn(new)
    BY <2>3, <1>3, <1>5 DEF ShownOn
  <2>5. QED
    BY <2>2, <2>4
<1>8. ShownOn(pages) \subseteq AllEvents /\ c \in ShownOn(pages)
  <2>1. 1 \in DOMAIN pages
    BY <1>3
  <2>2. \A i \in 1..n : Range(pages[i].events) \subseteq AllEvents
    BY <1>3, ElementOfSeq DEF Range
  <2>3. QED
    BY <2>1, <2>2, <1>3, <1>6 DEF ShownOn
<1>9. \A a \in ShownOn(pages) : a = c \/ Precedes(q.direction, c, a)
  <2> SUFFICES ASSUME NEW i \in 1..n, NEW a \in Range(pages[i].events)
               PROVE  a = c \/ Precedes(q.direction, c, a)
    BY <1>3 DEF ShownOn
  <2>1. CASE i # 1
    BY <2>1, <1>3, <1>6 DEF Follow
  <2>2. CASE i = 1
    <3>1. PICK m \in DOMAIN pages[1].events : a = pages[1].events[m]
      BY <2>2 DEF Range
    <3>2. DOMAIN pages[1].events = 1..Len(pages[1].events) /\ 1 \in DOMAIN pages
      BY <1>3
    <3>3. m = 1 \/ 1 < m
      BY <3>1, <3>2, <1>6
    <3>4. Sorted(q, pages[1].events) /\ 1 \in DOMAIN pages[1].events
      BY <3>2, <1>6 DEF Follow
    <3>5. QED
      BY <3>1, <3>3, <3>4, <1>6 DEF Sorted
  <2>3. QED
    BY <2>1, <2>2
<1>10. \A e \in AllEvents : PageFilter(q, cursor, e) <=> Precedes(q.direction, e, c)
  BY <1>6, EventsAssumption DEF PageFilter, cursor, CursorAt, Upward, Precedes, Earlier, Later, IsRequest, Directions
<1>11. \A e \in Range(page) : e \in AllEvents /\ Precedes(q.direction, e, c)
  BY <1>1, <1>10 DEF found, Matching, Selected
<1>12. \A a \in ShownOn(pages), e \in AllEvents : Precedes(q.direction, e, c) => Precedes(q.direction, e, a)
  BY <1>6, <1>8, <1>9, OrderOfEvents DEF IsRequest
<1>13. Follow(q, new)
  <2>1. \A i \in DOMAIN new : i = 1 \/ (i - 1 \in 1..n /\ new[i] = pages[i - 1])
    BY <1>3, <1>4
  <2>2. \A i \in DOMAIN new : Sorted(q, new[i].events)
    BY <2>1, <1>1, <1>3, <1>5 DEF Follow
  <2>3. ASSUME NEW i \in DOMAIN new, NEW j \in DOMAIN new, i < j,
               NEW a \in Range(new[i].events), NEW b \in Range(new[j].events)
        PROVE  Precedes(q.direction, a, b)
    <3>1. j - 1 \in 1..n /\ new[j] = pages[j - 1] /\ i \in Nat /\ j \in Nat
      BY <2>1, <2>3, <1>3, <1>4
    <3>2. CASE i # 1
      <4>1. i - 1 \in 1..n /\ new[i] = pages[i - 1] /\ i - 1 < j - 1
        BY <3>1, <3>2, <2>1, <2>3
      <4>2. QED
        BY <3>1, <4>1, <2>3, <1>3 DEF Follow
    <3>3. CASE i = 1
      <4>1. b \in ShownOn(pages)
        BY <3>1, <2>3, <1>3 DEF ShownOn
      <4>2. a \in Range(page)
        BY <3>3, <2>3, <1>5
      <4>3. QED
        BY <4>1, <4>2, <1>11, <1>12
    <3>4. QED
      BY <3>2, <3>3
  <2>4. QED
    BY <2>2, <2>3 DEF Follow
<1>14. ASSUME NEW e \in OwedTo(q, new, known) \ ShownOn(new)
       PROVE  \/ OffersPrevious(q, new) /\ \A a \in ShownOn(new) : Precedes(q.direction, e, a)
              \/ OffersNext(q, new) /\ \A a \in ShownOn(new) : Precedes(q.direction, a, e)
  <2>1. e \in OwedTo(q, pages, known) \ ShownOn(pages) /\ e \in S /\ e \in AllEvents
        /\ Selects(catalog, q, e) /\ e \notin Range(page)
    <3>1. \A i \in DOMAIN pages : i + 1 \in DOMAIN new /\ new[i + 1] = pages[i]
      BY <1>3, <1>4
    <3>2. 1 \in DOMAIN new
      BY <1>3, <1>4
    <3>3. QED
      BY <3>1, <3>2, <1>5, <1>7, <1>14 DEF OwedTo
  <2>2. CASE OffersPrevious(q, pages) /\ \A a \in ShownOn(pages) : Precedes(q.direction, e, a)
    <3>1. e \in found
      BY <2>1, <2>2, <1>8, <1>10 DEF found, Matching, Selected
    <3>2. Len(page) >= q.limit /\ \A a \in Range(page) : Precedes(q.direction, e, a)
      BY <3>1, <2>1, <1>1, <1>2
    <3>3. page # <<>>
      BY <3>2, EmptySeq DEF IsRequest
    <3>4. OffersPrevious(q, new)
      BY <3>2, <3>3, <1>4, <1>5 DEF OffersPrevious, Full, cursor, CursorAt
    <3>5. QED
      BY <3>2, <3>4, <2>2, <1>7
  <2>3. CASE OffersNext(q, pages) /\ \A a \in ShownOn(pages) : Precedes(q.direction, a, e)
    <3>1. OffersNext(q, new)
      BY <2>3, <1>3, <1>4, <1>5 DEF OffersNext
    <3>2. Precedes(q.direction, c, e)
      BY <2>3, <1>8
    <3>3. \A a \in Range(page) : Precedes(q.direction, a, e)
      BY <3>2, <2>1, <1>6, <1>11, OrderOfEvents DEF IsRequest
    <3>4. QED
      BY <3>1, <3>3, <2>3, <1>7
  <2>4. ~CutBelow(q, pages)
    BY <1>3 DEF CutBelow, OffersNext, OffersPrevious, Upward
  <2>5. QED
    BY <2>1, <2>2, <2>3, <2>4, <1>8 DEF NoHole
<1>15. NoHole(q, new, known)
  BY <1>14 DEF NoHole
<1>16. QED
  BY <1>13, <1>15 DEF new, cursor, c

-----------------------------------------------------------------------------
(* What the list keeps. *)

LEMMA EventsOfAFile == ASSUME NEW f \in Files PROVE IsFiniteSet(EventsOf(f)) /\ EventsOf(f) \subseteq AllEvents
<1>1. BatchOf[f] \in Seq(EventsOf(f))
  BY EventsAssumption
<1>2. PICK n \in Nat : DOMAIN BatchOf[f] = 1..n
  BY <1>1
<1> DEFINE g == [i \in 1..n |-> BatchOf[f][i]]
<1>3. g \in Surjection(1..n, EventsOf(f))
  BY <1>2 DEF EventsOf, Range, Surjection
<1>4. ExistsSurjection(1..n, EventsOf(f))
  BY <1>3 DEF ExistsSurjection
<1>5. IsFiniteSet(EventsOf(f))
  BY <1>4, FS_NatSurjection
<1>6. QED
  BY <1>5 DEF AllEvents

LEMMA RequestType == ASSUME NEW q \in EventRequests PROVE IsRequest(q)
BY RequestsAssumption DEF IsRequest, Directions

LEMMA PageType ==
  ASSUME NEW S \in SUBSET AllEvents, IsFiniteSet(S), NEW q, IsRequest(q), NEW catalog \in SUBSET FieldDefinitions,
         NEW side \in {"none", "around", "before", "after"}, NEW at \in Nat, NEW id \in Nat
  PROVE  PageAt(catalog, S, q, [side |-> side, at |-> at, id |-> id]) \in Page
<1>1. EventsPage(catalog, S, q, [side |-> side, at |-> at, id |-> id]) \in Seq(AllEvents)
  BY PageOfResult
<1>2. QED
  BY <1>1 DEF PageAt, Page

\* Pages that are the result of q for the events known.
GoodPages(S, q, pages, known) ==
    /\ pages \in Seq(Page) /\ pages # <<>> /\ known \subseteq S
    /\ Head(pages).cursor.side \in {"none", "around", Upward(q)}
    /\ Follow(q, pages) /\ NoHole(q, pages, known)

ListInv ==
    /\ loaded \subseteq Files /\ promoted \subseteq FieldDefinitions
    /\ Stored \subseteq AllEvents /\ IsFiniteSet(Stored)
    /\ list = [request |-> list.request, pages |-> list.pages, known |-> list.known]
    /\ \/ list.pages = <<>> /\ list.known = {}
       \/ list.request \in EventRequests /\ GoodPages(Stored, list.request, list.pages, list.known)
    /\ \/ refetch = NoRefetch
       \/ /\ list.pages # <<>>
          /\ refetch = [pages |-> refetch.pages, known |-> refetch.known]
          /\ GoodPages(Stored, list.request, refetch.pages, refetch.known)

LEMMA GoodGrows ==
  ASSUME NEW S, NEW T, S \subseteq T, NEW q, NEW pages, NEW known, GoodPages(S, q, pages, known)
  PROVE  GoodPages(T, q, pages, known)
BY DEF GoodPages

LEMMA GoodFirst ==
  ASSUME NEW S \in SUBSET AllEvents, IsFiniteSet(S), NEW q \in EventRequests, NEW catalog \in SUBSET FieldDefinitions,
         NEW cursor \in [side : {"none", "around", "before", "after"}, at : Nat, id : Nat],
         cursor.side \in {"none", "around", Upward(q)}
  PROVE  GoodPages(S, q, <<PageAt(catalog, S, q, cursor)>>, S)
<1> DEFINE page == PageAt(catalog, S, q, cursor)
<1>1. cursor = [side |-> cursor.side, at |-> cursor.at, id |-> cursor.id]
  OBVIOUS
<1>2. page \in Page
  BY <1>1, PageType, RequestType
<1>3. page.cursor = cursor
  BY DEF PageAt
<1>4. Follow(q, <<page>>) /\ NoHole(q, <<page>>, S)
  BY FirstPage, RequestType
<1> HIDE DEF page
<1>5. <<page>> \in Seq(Page) /\ <<page>> # <<>> /\ Head(<<page>>) = page
  BY <1>2
<1>6. QED
  BY <1>3, <1>4, <1>5 DEF GoodPages, page

LEMMA GoodNext ==
  ASSUME NEW S \in SUBSET AllEvents, IsFiniteSet(S), NEW q \in EventRequests, NEW catalog \in SUBSET FieldDefinitions,
         NEW pages, NEW known, GoodPages(S, q, pages, known), OffersNext(q, pages)
  PROVE  GoodPages(S, q, Append(pages, PageAt(catalog, S, q, CursorAt(Downward(q), Last(Last(pages).events)))), known)
<1> DEFINE e == Last(Last(pages).events)
           page == PageAt(catalog, S, q, CursorAt(Downward(q), e))
           new == Append(pages, page)
<1>1. pages \in Seq(Page) /\ pages # <<>> /\ known \in SUBSET S /\ Follow(q, pages) /\ NoHole(q, pages, known)
  BY DEF GoodPages
<1>2. e \in AllEvents
  <2>1. Last(pages) \in Page /\ Full(q, Last(pages))
    BY <1>1, EmptySeq DEF OffersNext, Last
  <2>2. Last(pages).events \in Seq(AllEvents) /\ Len(Last(pages).events) >= q.limit
    BY <2>1 DEF Page, Full
  <2>3. Len(Last(pages).events) \in Nat \ {0}
    BY <2>2, RequestType DEF IsRequest
  <2>4. QED
    BY <2>2, <2>3 DEF Last
<1>3. page \in Page
  <2>1. e.at \in Nat /\ e.id \in Nat /\ Downward(q) \in {"none", "around", "before", "after"}
    BY <1>2, EventsAssumption DEF Downward
  <2> HIDE DEF e
  <2>2. QED
    BY <2>1, PageType, RequestType DEF CursorAt
<1>4. Follow(q, new) /\ NoHole(q, new, known)
  BY <1>1, NextPage, RequestType
<1> HIDE DEF page
<1>5. new \in Seq(Page) /\ new # <<>> /\ Head(new) = Head(pages)
  BY <1>1, <1>3
<1>6. QED
  BY <1>1, <1>4, <1>5 DEF GoodPages, page

LEMMA GoodPrevious ==
  ASSUME NEW S \in SUBSET AllEvents, IsFiniteSet(S), NEW q \in EventRequests, NEW catalog \in SUBSET FieldDefinitions,
         NEW pages, NEW known, GoodPages(S, q, pages, known), OffersPrevious(q, pages)
  PROVE  GoodPages(S, q, <<PageAt(catalog, S, q, CursorAt(Upward(q), Head(Head(pages).events)))>> \o pages, known)
<1> DEFINE e == Head(Head(pages).events)
           page == PageAt(catalog, S, q, CursorAt(Upward(q), e))
           new == <<page>> \o pages
<1>1. pages \in Seq(Page) /\ pages # <<>> /\ known \in SUBSET S /\ Follow(q, pages) /\ NoHole(q, pages, known)
  BY DEF GoodPages
<1>2. e \in AllEvents
  <2>1. Head(pages) \in Page /\ Head(pages).events # <<>>
    BY <1>1, EmptySeq DEF OffersPrevious
  <2>2. Head(pages).events \in Seq(AllEvents)
    BY <2>1 DEF Page
  <2>3. QED
    BY <2>1, <2>2, HeadTailProperties
<1>3. page \in Page
  <2>1. e.at \in Nat /\ e.id \in Nat /\ Upward(q) \in {"none", "around", "before", "after"}
    BY <1>2, EventsAssumption DEF Upward
  <2> HIDE DEF e
  <2>2. QED
    BY <2>1, PageType, RequestType DEF CursorAt
<1>4. Follow(q, new) /\ NoHole(q, new, known)
  BY <1>1, PreviousPage, RequestType
<1>5. page.cursor.side = Upward(q)
  BY DEF PageAt, CursorAt
<1> HIDE DEF page
<1>6. new \in Seq(Page) /\ new # <<>> /\ Head(new) = page
  BY <1>1, <1>3
<1>7. QED
  BY <1>1, <1>4, <1>5, <1>6 DEF GoodPages, page

LEMMA ListInit_Inv == ListInit => ListInv
<1> SUFFICES ASSUME ListInit PROVE ListInv
  OBVIOUS
<1>1. Stored = {} /\ list.known = {} /\ list.pages = <<>>
  BY DEF ListInit, Stored
<1>2. QED
  BY <1>1, FS_EmptySet DEF ListInv, ListInit

LEMMA ListNext_Inv == ListInv /\ [ListNext]_listVars => ListInv'
<1> SUFFICES ASSUME ListInv, [ListNext]_listVars PROVE ListInv'
  OBVIOUS
<1> DEFINE q == list.request
           Good(pages, known) == GoodPages(Stored, q, pages, known)
<1>1. /\ Stored \in SUBSET AllEvents /\ IsFiniteSet(Stored) /\ promoted \in SUBSET FieldDefinitions
      /\ list.pages # <<>> => q \in EventRequests /\ Good(list.pages, list.known)
      /\ refetch # NoRefetch => list.pages # <<>> /\ Good(refetch.pages, refetch.known)
  BY DEF ListInv
\* The list gets new pages, and there is no refetch.
<1>2. ASSUME UNCHANGED <<loaded, promoted>>, refetch' = NoRefetch,
             NEW r \in EventRequests, NEW pages, NEW known,
             list' = [request |-> r, pages |-> pages, known |-> known], GoodPages(Stored, r, pages, known)
      PROVE  ListInv'
  <2>1. Stored' = Stored
    BY <1>2 DEF Stored
  <2>2. list'.request = r /\ list'.pages = pages /\ list'.known = known
    BY <1>2
  <2>3. QED
    BY <2>1, <2>2, <1>2 DEF ListInv
\* The refetch gets new pages, or there is none.
<1>3. ASSUME UNCHANGED <<loaded, promoted, list>>, NEW pages, NEW known,
             \/ refetch' = NoRefetch
             \/ /\ refetch' = [pages |-> pages, known |-> known]
                /\ list.pages # <<>> /\ Good(pages, known)
      PROVE  ListInv'
  <2>1. Stored' = Stored
    BY <1>3 DEF Stored
  <2>2. CASE refetch' = NoRefetch
    BY <2>1, <2>2, <1>3 DEF ListInv
  <2>3. CASE refetch' = [pages |-> pages, known |-> known] /\ list.pages # <<>> /\ Good(pages, known)
    <3>1. refetch'.pages = pages /\ refetch'.known = known
      BY <2>3
    <3>2. QED
      BY <3>1, <2>1, <2>3, <1>3 DEF ListInv
  <2>4. QED
    BY <2>2, <2>3, <1>3
<1>4. ASSUME NEW f \in Files, Load(f) PROVE ListInv'
  <2>1. Stored' = Stored \union EventsOf(f) /\ UNCHANGED <<promoted, list, refetch>> /\ loaded' \subseteq Files
    BY <1>4 DEF Load, Stored, ListInv
  <2>2. IsFiniteSet(Stored') /\ Stored' \subseteq AllEvents
    BY <2>1, <1>1, EventsOfAFile, FS_Union
  <2>3. \A pages, known : Good(pages, known) => GoodPages(Stored', q, pages, known)
    BY <2>1, GoodGrows
  <2>4. QED
    BY <2>1, <2>2, <2>3 DEF ListInv
<1>5. ASSUME NEW d \in FieldDefinitions, Promote(d) PROVE ListInv'
  <2>1. UNCHANGED <<loaded, list, refetch>> /\ promoted' \subseteq FieldDefinitions /\ UNCHANGED Stored
    BY <1>5 DEF Promote, ListInv, Stored
  <2>2. QED
    BY <2>1 DEF ListInv
<1>6. ASSUME NEW r \in EventRequests, NEW at \in Nat, NEW id \in Nat, NEW side \in {"none", "around"},
             Open(r, [side |-> side, at |-> at, id |-> id])
      PROVE  ListInv'
  <2> DEFINE page == PageAt(promoted, Stored, r, [side |-> side, at |-> at, id |-> id])
  <2>1. UNCHANGED <<loaded, promoted, refetch>> /\ list' = [request |-> r, pages |-> <<page>>, known |-> Stored]
    BY <1>6 DEF Open, Fetched, PageAt
  <2>2. GoodPages(Stored, r, <<page>>, Stored)
    BY <1>1, GoodFirst
  <2>3. refetch' = NoRefetch
    BY <2>1, <1>1, <1>6 DEF Open
  <2> HIDE DEF page
  <2>4. QED
    BY <2>1, <2>2, <2>3, <1>2
<1>7. CASE FetchNext
  <2> DEFINE page == PageAt(promoted, Stored, q, CursorAt(Downward(q), Last(Last(list.pages).events)))
             pages == Append(list.pages, page)
  <2>1. OffersNext(q, list.pages) /\ list.pages # <<>>
    BY <1>7 DEF FetchNext, HasNext, OffersNext
  <2>2. Good(pages, list.known)
    BY <2>1, <1>1, GoodNext
  <2>3. list' = [list EXCEPT !.pages = pages] /\ UNCHANGED <<loaded, promoted>> /\ refetch' = NoRefetch
    BY <1>7 DEF FetchNext, Fetched, PageAt
  <2> HIDE DEF pages
  <2>4. list' = [request |-> q, pages |-> pages, known |-> list.known]
    BY <2>3 DEF ListInv
  <2>5. QED
    BY <2>1, <2>2, <2>3, <2>4, <1>1, <1>2
<1>8. CASE FetchPrevious
  <2> DEFINE page == PageAt(promoted, Stored, q, CursorAt(Upward(q), Head(Head(list.pages).events)))
             pages == <<page>> \o list.pages
  <2>1. OffersPrevious(q, list.pages) /\ list.pages # <<>>
    BY <1>8 DEF FetchPrevious, HasPrevious, OffersPrevious
  <2>2. Good(pages, list.known)
    BY <2>1, <1>1, GoodPrevious
  <2>3. list' = [list EXCEPT !.pages = pages] /\ UNCHANGED <<loaded, promoted>> /\ refetch' = NoRefetch
    BY <1>8 DEF FetchPrevious, Fetched, PageAt
  <2> HIDE DEF pages
  <2>4. list' = [request |-> q, pages |-> pages, known |-> list.known]
    BY <2>3 DEF ListInv
  <2>5. QED
    BY <2>1, <2>2, <2>3, <2>4, <1>1, <1>2
<1>9. CASE RefetchFirst
  <2> DEFINE cursor == Head(list.pages).cursor
             page == PageAt(promoted, Stored, q, cursor)
  <2>1. list.pages # <<>> /\ UNCHANGED <<loaded, promoted, list>> /\ refetch' = [pages |-> <<page>>, known |-> Stored]
    BY <1>9 DEF RefetchFirst, Fetched, PageAt
  <2>2. Good(list.pages, list.known) /\ q \in EventRequests
    BY <2>1, <1>1
  <2>3. Head(list.pages) \in Page
    BY <2>2, EmptySeq DEF GoodPages
  <2>4. /\ cursor \in [side : {"none", "around", "before", "after"}, at : Nat, id : Nat]
        /\ cursor.side \in {"none", "around", Upward(q)}
    BY <2>2, <2>3 DEF GoodPages, Page
  <2>5. Good(<<page>>, Stored)
    BY <2>2, <2>4, <1>1, GoodFirst
  <2> HIDE DEF page
  <2>6. QED
    BY <2>1, <2>5, <1>3
<1>10. CASE RefetchNext
  <2> DEFINE page == PageAt(promoted, Stored, q, CursorAt(Downward(q), Last(Last(refetch.pages).events)))
             pages == Append(refetch.pages, page)
  <2>1. OffersNext(q, refetch.pages) /\ refetch # NoRefetch
    BY <1>10 DEF RefetchNext, Continues, OffersNext, NoRefetch
  <2>2. list.pages # <<>> /\ Good(refetch.pages, refetch.known) /\ q \in EventRequests
    BY <2>1, <1>1
  <2>3. Good(pages, refetch.known)
    BY <2>1, <2>2, <1>1, GoodNext
  <2>4. refetch' = [refetch EXCEPT !.pages = pages] /\ UNCHANGED <<loaded, promoted, list>>
    BY <1>10 DEF RefetchNext, Fetched, PageAt
  <2> HIDE DEF pages
  <2>5. refetch' = [pages |-> pages, known |-> refetch.known]
    BY <2>1, <2>4 DEF ListInv
  <2>6. QED
    BY <2>2, <2>3, <2>4, <2>5, <1>3
<1>11. CASE RefetchEnd
  <2>1. refetch # NoRefetch /\ UNCHANGED <<loaded, promoted>> /\ refetch' = NoRefetch
        /\ list' = [list EXCEPT !.pages = refetch.pages, !.known = refetch.known]
    BY <1>11 DEF RefetchEnd, NoRefetch
  <2>2. list.pages # <<>> /\ Good(refetch.pages, refetch.known) /\ q \in EventRequests
    BY <2>1, <1>1
  <2>3. list' = [request |-> q, pages |-> refetch.pages, known |-> refetch.known]
    BY <2>1 DEF ListInv
  <2>4. QED
    BY <2>1, <2>2, <2>3, <1>2
<1>12. CASE RefetchFail
  BY <1>12, <1>3 DEF RefetchFail
<1>13. CASE UNCHANGED listVars
  BY <1>13 DEF listVars, Stored, ListInv
<1>14. CASE \E r \in EventRequests, anchor \in Anchors :
                Open(r, [side |-> "around", at |-> anchor.at, id |-> anchor.id])
  BY <1>14, <1>6, RequestsAssumption
<1>15. CASE \E r \in EventRequests : Open(r, NoCursor)
  BY <1>15, <1>6 DEF NoCursor
<1>16. QED
  BY <1>4, <1>5, <1>7, <1>8, <1>9, <1>10, <1>11, <1>12, <1>13, <1>14, <1>15 DEF ListNext

\* The pages follow each other without a hole, whatever events, requests and
\* promotions there are, and also when all pages are asked for again.
THEOREM PagesFollow == ListSpec => []PagesAreTheResult
<1>1. ListInv => PagesAreTheResult
  <2> SUFFICES ASSUME ListInv PROVE PagesAreTheResult
    OBVIOUS
  <2>1. CASE list.pages = <<>> /\ list.known = {}
    BY <2>1 DEF PagesAreTheResult, Owed
  <2>2. CASE GoodPages(Stored, list.request, list.pages, list.known)
    BY <2>2, ResultOfPages DEF GoodPages
  <2>3. QED
    BY <2>1, <2>2 DEF ListInv
<1>2. QED
  BY <1>1, ListInit_Inv, ListNext_Inv, PTL DEF ListSpec
=============================================================================
