--------------------------- MODULE AccountsProofs ---------------------------
(***************************************************************************)
(* Theorems about Accounts, for any organizations, subjects, sessions,     *)
(* invitations and requests.                                               *)
(***************************************************************************)
EXTENDS Accounts, TLAPS

-----------------------------------------------------------------------------
(* Type correctness. *)

\* What a request carries at each of its steps.
Fields(q) ==
  /\ q.step \in {"lock", "write", "mark", "close", "set", "read", "insert", "admit"}
       => q.org \in Orgs
  /\ q.step \in {"lock", "write", "choose", "found", "open", "read", "insert", "admit"}
       => q.who \in Subjects
  /\ q.step \in {"set", "resolve", "repair", "admit"} => q.sess \in Sessions
  /\ q.step \in {"read", "insert", "admit"} => q.role \in Roles
  /\ q.step = "admit" => q.inv \in Invites
  /\ q.step = "choose" => q.seen \subseteq Orgs

FieldsOK == \A r \in Requests : Fields(req[r])

\* A session that a request has locked is not logged out.
Held(q) == q.step \in {"set", "admit"} => sessions[q.sess].who # None
HeldSessionsAreOpen == \A r \in Requests : Held(req[r])

SessionsOK ==
  /\ sessions \in [Sessions -> Session]
  /\ \A s \in Sessions : sessions[s].who = None => sessions[s] = NoSession

TypeInv == TypeOK /\ FieldsOK /\ HeldSessionsAreOpen

LEMMA BlankType ==
  ASSUME NEW step \in Steps
  PROVE  Blank(step) \in Request
BY DEF Blank, Request

LEMMA DoneType == Blank("done") \in Request /\ Fields(Blank("done"))
BY BlankType DEF Steps, Blank, Fields

\* Writing the active organization of open sessions keeps them open and typed.
LEMMA SetActiveType ==
  ASSUME SessionsOK, NEW s \in Sessions, sessions[s].who # None,
         NEW o \in Orgs \cup {None}, SetActive(s, o)
  PROVE  SessionsOK' /\ \A t \in Sessions : sessions'[t].who = sessions[t].who
<1>1. \A t \in Sessions : sessions[t] \in Session
  BY DEF SessionsOK
<1>2. \A t \in Sessions : t # s => sessions'[t] = sessions[t]
  BY DEF SetActive, SessionsOK
<1>3. sessions'[s] = [sessions[s] EXCEPT !.active = o]
  BY DEF SetActive, SessionsOK
<1>4. sessions'[s] \in Session /\ sessions'[s].who = sessions[s].who
  BY <1>1, <1>3 DEF Session
<1>5. sessions' \in [Sessions -> Session]
  BY <1>4 DEF SetActive, SessionsOK
<1>6. QED
  BY <1>2, <1>4, <1>5 DEF SessionsOK

LEMMA CloseType ==
  ASSUME SessionsOK, NEW set, Close(set)
  PROVE  SessionsOK' /\ \A t \in Sessions : sessions'[t].who = sessions[t].who
<1>1. ASSUME NEW t \in Sessions
      PROVE  /\ sessions'[t] \in Session
             /\ sessions'[t].who = sessions[t].who
             /\ sessions'[t].who = None => sessions'[t] = NoSession
  <2>1. sessions[t] \in Session
    BY DEF SessionsOK
  <2>2. sessions'[t] = IF t \in set THEN [sessions[t] EXCEPT !.active = None] ELSE sessions[t]
    BY DEF Close
  <2>3. sessions[t].who = None => sessions[t] = NoSession
    BY DEF SessionsOK
  <2>4. CASE t \in set
    BY <2>1, <2>2, <2>3, <2>4 DEF Session, NoSession
  <2>5. CASE t \notin set
    BY <2>1, <2>2, <2>3, <2>5
  <2>6. QED
    BY <2>4, <2>5
<1>2. sessions' = [t \in Sessions |-> sessions'[t]]
  BY DEF Close
<1>3. QED
  BY <1>1, <1>2 DEF SessionsOK

\* One request moves on to q; the sessions that the others hold stay open.
LEMMA MoveType ==
  ASSUME TypeInv, NEW r \in Requests, NEW q \in Request, Fields(q),
         req' = [req EXCEPT ![r] = q],
         q.step \in {"set", "admit"} => sessions'[q.sess].who # None,
         \A t \in Requests \ {r} :
           req[t].step \in {"set", "admit"} => sessions'[req[t].sess].who # None
  PROVE  req' \in [Requests -> Request] /\ FieldsOK' /\ HeldSessionsAreOpen'
<1>1. \A t \in Requests : req'[t] = IF t = r THEN q ELSE req[t]
  BY DEF TypeInv, TypeOK
<1>2. req' \in [Requests -> Request]
  BY DEF TypeInv, TypeOK
<1>3. \A t \in Requests : Fields(req'[t])
  BY <1>1 DEF TypeInv, FieldsOK
<1>4. FieldsOK'
  BY <1>3 DEF FieldsOK, Fields
<1>5. HeldSessionsAreOpen'
  BY <1>1 DEF HeldSessionsAreOpen, Held
<1>6. QED
  BY <1>2, <1>4, <1>5

\* The subjects of the sessions stay as they are, so what is held stays open.
LEMMA HeldStays ==
  ASSUME TypeInv, \A s \in Sessions : sessions'[s].who = sessions[s].who
  PROVE  \A t \in Requests :
           req[t].step \in {"set", "admit"} => sessions'[req[t].sess].who # None
BY DEF TypeInv, FieldsOK, Fields, HeldSessionsAreOpen, Held

\* A step that ends its request with the sessions' subjects as they are.
LEMMA FinishType ==
  ASSUME TypeInv, NEW r \in Requests, Finish(r) \/ Begin(r, Blank("done")),
         \A s \in Sessions : sessions'[s].who = sessions[s].who
  PROVE  req' \in [Requests -> Request] /\ FieldsOK' /\ HeldSessionsAreOpen'
<1>1. req' = [req EXCEPT ![r] = Blank("done")]
  BY DEF Finish, Begin
<1>2. Blank("done").step \notin {"set", "admit"}
  BY DEF Blank
<1>3. QED
  BY <1>1, <1>2, DoneType, HeldStays, MoveType

\* A step that changes its request and no other row.
LEMMA QuietType ==
  ASSUME TypeInv, NEW r \in Requests, NEW q \in Request, Fields(q),
         req' = [req EXCEPT ![r] = q],
         q.step \in {"set", "admit"} => sessions[q.sess].who # None,
         UNCHANGED <<orgs, members, sessions, invites, admitted, lapsed>>
  PROVE  TypeInv'
<1>1. \A s \in Sessions : sessions'[s].who = sessions[s].who
  OBVIOUS
<1>2. req' \in [Requests -> Request] /\ FieldsOK' /\ HeldSessionsAreOpen'
  BY <1>1, HeldStays, MoveType
<1>3. QED
  BY <1>2 DEF TypeInv, TypeOK

LEMMA MemberType ==
  ASSUME TypeInv, NEW r \in Requests,
         LockMembers(r) \/ WriteMember(r)
  PROVE  TypeInv'
<1>1. req[r] \in Request /\ Fields(req[r]) /\ SessionsOK
  BY DEF TypeInv, TypeOK, FieldsOK, SessionsOK
<1>2. CASE LockMembers(r)
  <2>1. UNCHANGED <<orgs, members, sessions, invites, admitted, lapsed>>
    BY <1>2 DEF LockMembers
  <2>2. CASE Finish(r)
    BY <2>1, <2>2, DoneType, QuietType DEF Finish, Blank
  <2>3. CASE Goto(r, "write")
    <3>1. req' = [req EXCEPT ![r] = [req[r] EXCEPT !.step = "write"]]
      BY <2>3 DEF Goto
    <3>2. [req[r] EXCEPT !.step = "write"] \in Request
      BY <1>1 DEF Request, Steps
    <3>3. Fields([req[r] EXCEPT !.step = "write"])
      BY <1>1, <1>2 DEF Request, Fields, LockMembers
    <3>4. [req[r] EXCEPT !.step = "write"].step = "write"
      BY <1>1 DEF Request
    <3>5. QED
      BY <2>1, <3>1, <3>2, <3>3, <3>4, QuietType
  <2>4. QED
    BY <1>2, <2>2, <2>3 DEF LockMembers
<1>3. CASE WriteMember(r)
  <2>1. req[r].org \in Orgs /\ req[r].who \in Subjects /\ req[r].role \in Roles \cup {"none"}
    BY <1>1, <1>3 DEF WriteMember, Fields, Request
  <2>2. members' \in [Orgs -> [Subjects -> Roles \cup {"none"}]]
    BY <1>3, <2>1 DEF WriteMember, TypeInv, TypeOK
  <2>3. SessionsOK' /\ \A s \in Sessions : sessions'[s].who = sessions[s].who
    <3>1. CASE UNCHANGED sessions
      BY <1>1, <3>1 DEF SessionsOK
    <3>2. CASE \E set : Close(set)
      BY <1>1, <3>2, CloseType
    <3>3. QED
      BY <1>3, <3>1, <3>2 DEF WriteMember
  <2>4. req' \in [Requests -> Request] /\ FieldsOK' /\ HeldSessionsAreOpen'
    BY <1>3, <2>3, FinishType DEF WriteMember
  <2>5. UNCHANGED <<orgs, invites, admitted, lapsed>>
    BY <1>3 DEF WriteMember
  <2>6. QED
    BY <2>2, <2>3, <2>4, <2>5 DEF TypeInv, TypeOK, SessionsOK
<1>4. QED
  BY <1>2, <1>3

\* The requests whose first step only reads.
LEMMA ReadingArrivalType ==
  ASSUME TypeInv, NEW r \in Requests,
         \/ \E s \in Sessions, o \in Orgs, u \in Subjects, role \in Roles \cup {"none"} :
              StartMember(r, s, o, u, role)
         \/ \E s \in Sessions, o \in Orgs : StartArchive(r, s, o) \/ StartSwitch(r, s, o)
         \/ \E s \in Sessions : Validate(r, s)
         \/ \E u \in Subjects : StartLogin(r, u)
         \/ \E s \in Sessions, i \in Invites : Resend(r, s, i) \/ Claim(r, s, i)
  PROVE  TypeInv'
<1>1. /\ \A s \in Sessions : sessions[s] \in Session
      /\ \A i \in Invites : invites[i] \in Invite
  BY DEF TypeInv, TypeOK
<1>2. UNCHANGED <<orgs, members, sessions, invites, admitted, lapsed>>
  BY DEF StartMember, StartArchive, StartSwitch, Validate, StartLogin, Resend, Claim
<1>3. ASSUME NEW s \in Sessions, NEW o \in Orgs, NEW u \in Subjects,
             NEW role \in Roles \cup {"none"}, StartMember(r, s, o, u, role)
      PROVE  TypeInv'
  <2>1. DEFINE q == [Blank("lock") EXCEPT !.org = o, !.who = u, !.role = role]
  <2>2. q \in Request /\ Fields(q) /\ q.step = "lock"
    BY DEF Blank, Request, Fields, Steps
  <2>3. req' = [req EXCEPT ![r] = q]
    BY <1>3 DEF StartMember, Begin
  <2>4. QED
    BY <1>2, <2>2, <2>3, QuietType
<1>4. ASSUME NEW s \in Sessions, NEW o \in Orgs, StartArchive(r, s, o)
      PROVE  TypeInv'
  <2>1. DEFINE q == [Blank("mark") EXCEPT !.org = o]
  <2>2. q \in Request /\ Fields(q) /\ q.step = "mark"
    BY DEF Blank, Request, Fields, Steps
  <2>3. req' = [req EXCEPT ![r] = q]
    BY <1>4 DEF StartArchive, Begin
  <2>4. QED
    BY <1>2, <2>2, <2>3, QuietType
<1>5. ASSUME NEW s \in Sessions, NEW o \in Orgs, StartSwitch(r, s, o)
      PROVE  TypeInv'
  <2>1. DEFINE q == [Blank("set") EXCEPT !.sess = s, !.org = o]
  <2>2. q \in Request /\ Fields(q) /\ q.sess = s
    BY DEF Blank, Request, Fields, Steps
  <2>3. req' = [req EXCEPT ![r] = q] /\ sessions[s].who # None
    BY <1>5 DEF StartSwitch, Begin
  <2>4. QED
    BY <1>2, <2>2, <2>3, QuietType
<1>6. ASSUME NEW s \in Sessions, Validate(r, s)
      PROVE  TypeInv'
  <2>1. DEFINE q == [Blank("resolve") EXCEPT !.sess = s, !.who = sessions[s].who,
                                             !.org = sessions[s].active]
  <2>2. q \in Request /\ Fields(q) /\ q.step = "resolve"
    BY <1>1 DEF Blank, Request, Session, Fields, Steps
  <2>3. req' = [req EXCEPT ![r] = q]
    BY <1>6 DEF Validate, Begin
  <2>4. QED
    BY <1>2, <2>2, <2>3, QuietType
<1>7. ASSUME NEW u \in Subjects, StartLogin(r, u)
      PROVE  TypeInv'
  <2>1. DEFINE q == [Blank("choose") EXCEPT !.who = u, !.seen = Memberships(u)]
  <2>2. q \in Request /\ Fields(q) /\ q.step = "choose"
    BY DEF Blank, Request, Fields, Steps, Memberships
  <2>3. req' = [req EXCEPT ![r] = q]
    BY <1>7 DEF StartLogin, Begin
  <2>4. QED
    BY <1>2, <2>2, <2>3, QuietType
<1>8. ASSUME NEW s \in Sessions, NEW i \in Invites, Resend(r, s, i)
      PROVE  TypeInv'
  <2>1. req' = [req EXCEPT ![r] = Blank("done")] /\ Blank("done").step = "done"
    BY <1>8 DEF Resend, Begin, Blank
  <2>2. QED
    BY <1>2, <2>1, DoneType, QuietType
<1>9. ASSUME NEW s \in Sessions, NEW i \in Invites, Claim(r, s, i)
      PROVE  TypeInv'
  <2>1. DEFINE q == [Blank("admit") EXCEPT !.sess = s, !.inv = i, !.org = invites[i].org,
                                           !.who = sessions[s].who, !.role = invites[i].role]
  <2>2. sessions[s].who \in Subjects /\ invites[i].org \in Orgs /\ invites[i].role \in Roles
    BY <1>1, <1>9 DEF Claim, Session, Invite, TypeInv, TypeOK
  <2>3. q \in Request /\ Fields(q) /\ q.sess = s
    BY <2>2 DEF Blank, Request, Fields, Steps
  <2>4. req' = [req EXCEPT ![r] = q] /\ sessions[s].who # None
    BY <1>9 DEF Claim, Begin
  <2>5. QED
    BY <1>2, <2>3, <2>4, QuietType
<1>10. QED
  BY <1>3, <1>4, <1>5, <1>6, <1>7, <1>8, <1>9

\* Steps that only look before they move on, or end.
LEMMA ReadingStepType ==
  ASSUME TypeInv, NEW r \in Requests,
         MarkArchived(r) \/ Resolve(r) \/ Choose(r) \/ ReadInvite(r) \/ Fail(r)
  PROVE  TypeInv'
<1>1. req[r] \in Request /\ Fields(req[r])
  BY DEF TypeInv, TypeOK, FieldsOK
<1>2. UNCHANGED <<orgs, members, sessions, invites, admitted, lapsed>>
  BY DEF MarkArchived, Resolve, Choose, ReadInvite, Fail
<1>3. CASE Finish(r)
  <2>1. req' = [req EXCEPT ![r] = Blank("done")] /\ Blank("done").step = "done"
    BY <1>3 DEF Finish, Blank
  <2>2. QED
    BY <1>2, <2>1, DoneType, QuietType
<1>4. CASE MarkArchived(r) /\ ~Finish(r)
  <2>1. DEFINE inside == {s \in Sessions : sessions[s].active = req[r].org}
               q == [req[r] EXCEPT !.step = "close", !.seen = inside]
  <2>2. req' = [req EXCEPT ![r] = q]
    BY <1>4 DEF MarkArchived
  <2>3. q \in Request /\ Fields(q) /\ q.step = "close"
    BY <1>1, <1>4 DEF MarkArchived, Request, Fields, Steps
  <2>4. QED
    BY <1>2, <2>2, <2>3, QuietType
<1>5. CASE Resolve(r) /\ ~Finish(r)
  <2>1. PICK o \in Orgs \cup {None} : req' = [req EXCEPT ![r] =
                                       [req[r] EXCEPT !.step = "repair", !.org = o]]
    BY <1>5 DEF Resolve, Memberships
  <2>2. DEFINE q == [req[r] EXCEPT !.step = "repair", !.org = o]
  <2>3. q \in Request /\ Fields(q) /\ q.step = "repair"
    BY <1>1, <1>5 DEF Resolve, Request, Fields, Steps
  <2>4. QED
    BY <1>2, <2>1, <2>3, QuietType
<1>6. CASE Choose(r)
  <2>1. req[r].step = "choose" /\ req[r].seen \subseteq Orgs /\ req[r].who \in Subjects
    BY <1>1, <1>6 DEF Choose, Fields
  <2>2. CASE \E o \in req[r].seen : req' = [req EXCEPT ![r] =
                 [req[r] EXCEPT !.step = "open", !.org = o, !.seen = {}]]
    <3>1. PICK o \in Orgs : req' = [req EXCEPT ![r] =
                 [req[r] EXCEPT !.step = "open", !.org = o, !.seen = {}]]
      BY <2>1, <2>2
    <3>2. DEFINE q == [req[r] EXCEPT !.step = "open", !.org = o, !.seen = {}]
    <3>3. q \in Request /\ Fields(q) /\ q.step = "open"
      BY <1>1, <2>1 DEF Request, Fields, Steps
    <3>4. QED
      BY <1>2, <3>1, <3>3, QuietType
  <2>3. CASE Goto(r, "found") \/ Goto(r, "open")
    <3>1. PICK step \in {"found", "open"} : req' = [req EXCEPT ![r] = [req[r] EXCEPT !.step = step]]
      BY <2>3 DEF Goto
    <3>2. DEFINE q == [req[r] EXCEPT !.step = step]
    <3>3. q \in Request /\ Fields(q) /\ q.step \in {"found", "open"}
      BY <1>1, <2>1 DEF Request, Fields, Steps
    <3>4. QED
      BY <1>2, <3>1, <3>3, QuietType
  <2>4. QED
    BY <1>6, <2>2, <2>3 DEF Choose
<1>7. CASE ReadInvite(r) /\ ~Finish(r)
  <2>1. DEFINE q == [req[r] EXCEPT !.step = "insert"]
  <2>2. req' = [req EXCEPT ![r] = q]
    BY <1>7 DEF ReadInvite, Goto
  <2>3. q \in Request /\ Fields(q) /\ q.step = "insert"
    BY <1>1, <1>7 DEF ReadInvite, Request, Fields, Steps
  <2>4. QED
    BY <1>2, <2>2, <2>3, QuietType
<1>8. QED
  BY <1>3, <1>4, <1>5, <1>6, <1>7 DEF Fail

LEMMA OrganizationType ==
  ASSUME TypeInv, NEW r \in Requests,
         \/ CloseOrganization(r)
         \/ \E s \in Sessions, o \in Orgs : CreateOrganization(r, s, o)
         \/ \E o \in Orgs : FoundPersonal(r, o)
  PROVE  TypeInv'
<1>1. req[r] \in Request /\ Fields(req[r]) /\ SessionsOK
  BY DEF TypeInv, TypeOK, FieldsOK, SessionsOK
<1>2. CASE CloseOrganization(r)
  <2>1. req[r].org \in Orgs
    BY <1>1, <1>2 DEF CloseOrganization, Fields
  <2>2. orgs' \in [Orgs -> {"none", "live", "archived"}]
    BY <1>2, <2>1 DEF CloseOrganization, TypeInv, TypeOK
  <2>3. /\ invites' \in [Invites -> Invite]
        /\ \A i \in Invites : invites'[i].status = "pending"
                                => None \notin {invites'[i].org, invites'[i].who}
    <3>1. ASSUME NEW i \in Invites
          PROVE  /\ invites'[i] \in Invite
                 /\ invites'[i].status = "pending" => None \notin {invites'[i].org, invites'[i].who}
      <4>1. \/ invites'[i] = invites[i]
            \/ /\ invites'[i] = [invites[i] EXCEPT !.status = "revoked"]
               /\ invites[i].status = "pending"
        BY <1>2 DEF CloseOrganization
      <4>2. invites[i] \in Invite
        BY DEF TypeInv, TypeOK
      <4>3. invites[i].status = "pending" => None \notin {invites[i].org, invites[i].who}
        BY DEF TypeInv, TypeOK
      <4>4. QED
        BY <4>1, <4>2, <4>3 DEF Invite
    <3>2. invites' = [i \in Invites |-> invites'[i]]
      BY <1>2 DEF CloseOrganization
    <3>3. QED
      BY <3>1, <3>2
  <2>4. SessionsOK' /\ \A t \in Sessions : sessions'[t].who = sessions[t].who
    BY <1>1, <1>2, CloseType DEF CloseOrganization
  <2>5. req' \in [Requests -> Request] /\ FieldsOK' /\ HeldSessionsAreOpen'
    BY <1>2, <2>4, FinishType DEF CloseOrganization
  <2>6. UNCHANGED <<members, admitted, lapsed>>
    BY <1>2 DEF CloseOrganization
  <2>7. QED
    BY <2>2, <2>3, <2>4, <2>5, <2>6 DEF TypeInv, TypeOK, SessionsOK
<1>3. ASSUME NEW s \in Sessions, NEW o \in Orgs, CreateOrganization(r, s, o)
      PROVE  TypeInv'
  <2>1. sessions[s].who \in Subjects
    BY <1>1, <1>3 DEF CreateOrganization, SessionsOK, Session
  <2>2. /\ orgs' \in [Orgs -> {"none", "live", "archived"}]
        /\ members' \in [Orgs -> [Subjects -> Roles \cup {"none"}]]
    BY <1>3, <2>1 DEF CreateOrganization, TypeInv, TypeOK, Roles
  <2>3. SessionsOK' /\ \A t \in Sessions : sessions'[t].who = sessions[t].who
    BY <1>1, <1>3, SetActiveType DEF CreateOrganization
  <2>4. req' \in [Requests -> Request] /\ FieldsOK' /\ HeldSessionsAreOpen'
    BY <1>3, <2>3, FinishType DEF CreateOrganization
  <2>5. UNCHANGED <<invites, admitted, lapsed>>
    BY <1>3 DEF CreateOrganization
  <2>6. QED
    BY <2>2, <2>3, <2>4, <2>5 DEF TypeInv, TypeOK, SessionsOK
<1>4. ASSUME NEW o \in Orgs, FoundPersonal(r, o)
      PROVE  TypeInv'
  <2>1. req[r].who \in Subjects
    BY <1>1, <1>4 DEF FoundPersonal, Fields
  <2>2. /\ orgs' \in [Orgs -> {"none", "live", "archived"}]
        /\ members' \in [Orgs -> [Subjects -> Roles \cup {"none"}]]
    BY <1>4, <2>1 DEF FoundPersonal, TypeInv, TypeOK, Roles
  <2>3. DEFINE q == [req[r] EXCEPT !.step = "open", !.org = o]
  <2>4. q \in Request /\ Fields(q) /\ q.step = "open"
    BY <1>1, <2>1 DEF Request, Fields, Steps
  <2>5. UNCHANGED <<sessions, invites, admitted, lapsed>> /\ req' = [req EXCEPT ![r] = q]
    BY <1>4 DEF FoundPersonal
  <2>6. req' \in [Requests -> Request] /\ FieldsOK' /\ HeldSessionsAreOpen'
    BY <2>4, <2>5, HeldStays, MoveType
  <2>7. QED
    BY <2>2, <2>5, <2>6 DEF TypeInv, TypeOK
<1>5. QED
  BY <1>2, <1>3, <1>4

LEMMA SessionType ==
  ASSUME TypeInv, NEW r \in Requests,
         Switch(r) \/ Repair(r) \/ \E s \in Sessions : Logout(r, s) \/ OpenSession(r, s)
  PROVE  TypeInv'
<1>1. req[r] \in Request /\ Fields(req[r]) /\ Held(req[r]) /\ SessionsOK
  BY DEF TypeInv, TypeOK, FieldsOK, HeldSessionsAreOpen, SessionsOK
<1>2. UNCHANGED <<orgs, members, invites, admitted, lapsed>>
  BY DEF Switch, Repair, Logout, OpenSession
<1>3. CASE Switch(r) \/ Repair(r)
  <2>1. req[r].sess \in Sessions /\ req[r].org \in Orgs \cup {None}
    BY <1>1, <1>3 DEF Switch, Repair, Fields, Request
  <2>2. \/ UNCHANGED sessions
        \/ sessions[req[r].sess].who # None /\ SetActive(req[r].sess, req[r].org)
    BY <1>1, <1>3 DEF Switch, Repair, Held
  <2>3. SessionsOK' /\ \A t \in Sessions : sessions'[t].who = sessions[t].who
    <3>1. CASE UNCHANGED sessions
      BY <1>1, <3>1 DEF SessionsOK
    <3>2. CASE sessions[req[r].sess].who # None /\ SetActive(req[r].sess, req[r].org)
      BY <1>1, <2>1, <3>2, SetActiveType
    <3>3. QED
      BY <2>2, <3>1, <3>2
  <2>4. req' \in [Requests -> Request] /\ FieldsOK' /\ HeldSessionsAreOpen'
    BY <1>3, <2>3, FinishType DEF Switch, Repair
  <2>5. QED
    BY <1>2, <2>3, <2>4 DEF TypeInv, TypeOK, SessionsOK
<1>4. ASSUME NEW s \in Sessions, NEW row \in Session, row.who = None => row = NoSession,
             sessions' = [sessions EXCEPT ![s] = row],
             Finish(r) \/ Begin(r, Blank("done")),
             \A t \in Requests : req[t].step \in {"set", "admit"} => req[t].sess # s
      PROVE  TypeInv'
  <2>1. SessionsOK'
    BY <1>1, <1>4 DEF SessionsOK
  <2>2. \A t \in Requests :
          req[t].step \in {"set", "admit"} => sessions'[req[t].sess].who # None
    BY <1>1, <1>4 DEF TypeInv, SessionsOK, FieldsOK, Fields, HeldSessionsAreOpen, Held
  <2>3. req' = [req EXCEPT ![r] = Blank("done")] /\ Blank("done").step = "done"
    BY <1>4 DEF Finish, Begin, Blank
  <2>4. req' \in [Requests -> Request] /\ FieldsOK' /\ HeldSessionsAreOpen'
    BY <2>2, <2>3, DoneType, MoveType
  <2>5. QED
    BY <1>2, <2>1, <2>4 DEF TypeInv, TypeOK, SessionsOK
<1>5. ASSUME NEW s \in Sessions, Logout(r, s)
      PROVE  TypeInv'
  <2>1. \A t \in Requests : req[t].step \in {"set", "admit"} => req[t].sess # s
    BY <1>5 DEF Logout, SessionLocked
  <2>2. NoSession \in Session
    BY DEF NoSession, Session
  <2>3. sessions' = [sessions EXCEPT ![s] = NoSession] /\ Begin(r, Blank("done"))
    BY <1>5 DEF Logout
  <2>4. QED
    BY <1>4, <2>1, <2>2, <2>3
<1>6. ASSUME NEW s \in Sessions, OpenSession(r, s)
      PROVE  TypeInv'
  <2>1. req[r].who \in Subjects /\ req[r].org \in Orgs \cup {None}
    BY <1>1, <1>6 DEF OpenSession, Fields, Request
  <2>2. DEFINE row == [who |-> req[r].who, active |-> req[r].org]
  <2>3. row \in Session /\ row.who # None
    BY <2>1, AccountsAssumption DEF Session
  <2>4. \A t \in Requests : req[t].step \in {"set", "admit"} => req[t].sess # s
    BY <1>6 DEF OpenSession, NoSession, TypeInv, HeldSessionsAreOpen, Held
  <2>5. sessions' = [sessions EXCEPT ![s] = row] /\ Finish(r)
    BY <1>6 DEF OpenSession
  <2>6. QED
    BY <1>4, <2>3, <2>4, <2>5
<1>7. QED
  BY <1>3, <1>5, <1>6

\* The invitations stay complete.
InvitesOK ==
  /\ invites \in [Invites -> Invite]
  /\ \A i \in Invites : invites[i].status = "pending" => None \notin {invites[i].org, invites[i].who}

LEMMA InvitationType ==
  ASSUME TypeInv, NEW r \in Requests,
         \/ \E s \in Sessions, o \in Orgs, u \in Subjects, role \in Roles :
              StartInvite(r, s, o, u, role)
         \/ \E s \in Sessions, i \in Invites : Revoke(r, s, i)
         \/ \E i \in Invites : InsertInvite(r, i)
  PROVE  TypeInv'
<1>1. req[r] \in Request /\ Fields(req[r]) /\ InvitesOK
  BY DEF TypeInv, TypeOK, FieldsOK, InvitesOK
<1>2. UNCHANGED <<orgs, members, sessions, admitted, lapsed>>
  BY DEF StartInvite, InsertInvite, Revoke
<1>3. ASSUME NEW s \in Sessions, NEW o \in Orgs, NEW u \in Subjects, NEW role \in Roles,
             StartInvite(r, s, o, u, role)
      PROVE  TypeInv'
  <2>1. DEFINE q == [Blank("read") EXCEPT !.org = o, !.who = u, !.role = role]
  <2>2. q \in Request /\ Fields(q) /\ q.step = "read"
    BY DEF Blank, Request, Fields, Steps
  <2>3. req' = [req EXCEPT ![r] = q]
    BY <1>3 DEF StartInvite, Begin
  <2>4. req' \in [Requests -> Request] /\ FieldsOK' /\ HeldSessionsAreOpen'
    BY <1>2, <2>2, <2>3, HeldStays, MoveType
  <2>5. ASSUME NEW j \in Invites
        PROVE  /\ invites'[j] \in Invite
               /\ invites'[j].status = "pending" => None \notin {invites'[j].org, invites'[j].who}
    <3>1. \/ invites'[j] = invites[j]
          \/ /\ invites'[j] = [invites[j] EXCEPT !.status = "revoked"]
             /\ invites[j].status = "pending"
      BY <1>3 DEF StartInvite
    <3>2. invites[j] \in Invite
      BY <1>1 DEF InvitesOK
    <3>3. invites[j].status = "pending" => None \notin {invites[j].org, invites[j].who}
      BY <1>1 DEF InvitesOK
    <3>4. QED
      BY <3>1, <3>2, <3>3 DEF Invite
  <2>6. invites' = [j \in Invites |-> invites'[j]]
    BY <1>3 DEF StartInvite
  <2>7. InvitesOK'
    BY <2>5, <2>6 DEF InvitesOK
  <2>8. QED
    BY <1>2, <2>4, <2>7 DEF TypeInv, TypeOK, InvitesOK
<1>4. ASSUME NEW i \in Invites, NEW row \in Invite, row.status = "pending" => None \notin {row.org, row.who},
             invites' = [invites EXCEPT ![i] = row]
      PROVE  InvitesOK'
  BY <1>1, <1>4 DEF InvitesOK
<1>5. ASSUME NEW i \in Invites, InsertInvite(r, i)
      PROVE  TypeInv'
  <2>1. req[r].org \in Orgs /\ req[r].who \in Subjects /\ req[r].role \in Roles
    BY <1>1, <1>5 DEF InsertInvite, Fields
  <2>2. DEFINE row == [org |-> req[r].org, who |-> req[r].who, role |-> req[r].role,
                       status |-> "pending", expired |-> FALSE]
  <2>3. row \in Invite /\ None \notin {row.org, row.who}
    BY <2>1, AccountsAssumption DEF Invite
  <2>4. UNCHANGED invites \/ invites' = [invites EXCEPT ![i] = row]
    BY <1>5 DEF InsertInvite
  <2>5. InvitesOK'
    <3>1. CASE UNCHANGED invites
      BY <1>1, <3>1 DEF InvitesOK
    <3>2. CASE invites' = [invites EXCEPT ![i] = row]
      BY <1>4, <2>3, <3>2
    <3>3. QED
      BY <2>4, <3>1, <3>2
  <2>6. req' \in [Requests -> Request] /\ FieldsOK' /\ HeldSessionsAreOpen'
    BY <1>2, <1>5, FinishType DEF InsertInvite
  <2>7. QED
    BY <1>2, <2>5, <2>6 DEF TypeInv, TypeOK, InvitesOK
<1>6. ASSUME NEW s \in Sessions, NEW i \in Invites, Revoke(r, s, i)
      PROVE  TypeInv'
  <2>1. DEFINE row == [invites[i] EXCEPT !.status = "revoked"]
  <2>2. row \in Invite /\ (row.status = "pending" => None \notin {row.org, row.who})
    BY <1>1, <1>6 DEF Revoke, InvitesOK, Invite
  <2>3. invites' = [invites EXCEPT ![i] = row]
    BY <1>6 DEF Revoke
  <2>4. InvitesOK'
    BY <1>4, <2>2, <2>3
  <2>5. req' \in [Requests -> Request] /\ FieldsOK' /\ HeldSessionsAreOpen'
    BY <1>2, <1>6, FinishType DEF Revoke
  <2>6. QED
    BY <1>2, <2>4, <2>5 DEF TypeInv, TypeOK, InvitesOK
<1>7. QED
  BY <1>3, <1>5, <1>6

LEMMA ExpireType ==
  ASSUME TypeInv, NEW i \in Invites, Expire(i)
  PROVE  TypeInv'
<1>1. InvitesOK
  BY DEF TypeInv, TypeOK, InvitesOK
<1>2. DEFINE row == [invites[i] EXCEPT !.expired = TRUE]
<1>3. row \in Invite /\ (row.status = "pending" => None \notin {row.org, row.who})
  BY <1>1 DEF Expire, InvitesOK, Invite
<1>4. invites' = [invites EXCEPT ![i] = row]
  BY DEF Expire
<1>5. UNCHANGED <<orgs, members, sessions, req, admitted, lapsed>>
  BY DEF Expire
<1>6. InvitesOK'
  BY <1>1, <1>3, <1>4 DEF InvitesOK
<1>7. FieldsOK' /\ HeldSessionsAreOpen'
  BY <1>5 DEF TypeInv, FieldsOK, HeldSessionsAreOpen, Held
<1>8. QED
  BY <1>5, <1>6, <1>7 DEF TypeInv, TypeOK, InvitesOK

LEMMA AdmitType ==
  ASSUME TypeInv, NEW r \in Requests, Admit(r)
  PROVE  TypeInv'
<1>1. /\ req[r] \in Request /\ Fields(req[r]) /\ Held(req[r])
      /\ SessionsOK /\ InvitesOK /\ req[r].step = "admit"
  BY DEF TypeInv, TypeOK, FieldsOK, HeldSessionsAreOpen, SessionsOK, InvitesOK, Admit
<1>2. /\ req[r].org \in Orgs /\ req[r].who \in Subjects /\ req[r].role \in Roles
      /\ req[r].sess \in Sessions /\ req[r].inv \in Invites
      /\ sessions[req[r].sess].who # None
  BY <1>1 DEF Fields, Held
<1>3. CASE UNCHANGED <<members, invites, sessions, admitted, lapsed>>
  <2>1. req' \in [Requests -> Request] /\ FieldsOK' /\ HeldSessionsAreOpen'
    BY <1>3, FinishType DEF Admit
  <2>2. QED
    BY <1>3, <2>1 DEF Admit, TypeInv, TypeOK
<1>4. CASE orgs[req[r].org] = "live"
  <2>1. members' \in [Orgs -> [Subjects -> Roles \cup {"none"}]]
    <3>1. PICK o \in Orgs, u \in Subjects, role \in Roles :
            o = req[r].org /\ u = req[r].who /\ role = req[r].role
      BY <1>2
    <3>2. members' = [members EXCEPT ![o][u] = role]
      BY <1>4, <3>1 DEF Admit
    <3>3. QED
      BY <3>2 DEF TypeInv, TypeOK
  <2>2. SessionsOK' /\ \A t \in Sessions : sessions'[t].who = sessions[t].who
    BY <1>1, <1>2, <1>4, SetActiveType DEF Admit
  <2>3. req' \in [Requests -> Request] /\ FieldsOK' /\ HeldSessionsAreOpen'
    BY <2>2, FinishType DEF Admit
  <2>4. PICK i \in Invites : i = req[r].inv
    BY <1>2
  <2>5. DEFINE row == [invites[i] EXCEPT !.status = "accepted"]
  <2>6. InvitesOK'
    <3>1. row \in Invite /\ row.status = "accepted"
      BY <1>1 DEF InvitesOK, Invite
    <3>2. invites' = [invites EXCEPT ![i] = row]
      BY <1>4, <2>4 DEF Admit
    <3>3. QED
      BY <1>1, <3>1, <3>2 DEF InvitesOK
  <2>7. admitted' \subseteq Requests \X Invites \X Subjects /\ lapsed' \subseteq Orgs
    BY <1>2, <1>4 DEF Admit, TypeInv, TypeOK
  <2>8. UNCHANGED orgs
    BY DEF Admit
  <2>9. QED
    BY <2>1, <2>2, <2>3, <2>6, <2>7, <2>8 DEF TypeInv, TypeOK, SessionsOK, InvitesOK
<1>5. QED
  BY <1>3, <1>4 DEF Admit

LEMMA InitTypeInv == Init => TypeInv
<1>1. ASSUME Init PROVE TypeInv
  <2>1. req \in [Requests -> Request]
    BY <1>1, BlankType DEF Init, Steps
  <2>2. \A r \in Requests : req[r].step = "idle"
    BY <1>1 DEF Init, Blank
  <2>3. /\ orgs \in [Orgs -> {"none", "live", "archived"}]
        /\ members \in [Orgs -> [Subjects -> Roles \cup {"none"}]]
        /\ sessions \in [Sessions -> Session]
        /\ admitted \subseteq Requests \X Invites \X Subjects /\ lapsed \subseteq Orgs
    BY <1>1 DEF Init
  <2>4. \A s \in Sessions : sessions[s].who = None => sessions[s] = NoSession
    <3>1. ASSUME NEW s \in Sessions, sessions[s].who = None
          PROVE  sessions[s] = NoSession
      <4>1. sessions[s].active = None /\ sessions[s] \in Session
        BY <1>1, <2>3, <3>1 DEF Init
      <4>2. QED
        BY <3>1, <4>1 DEF Session, NoSession
    <3>2. QED
      BY <3>1
  <2>5. invites \in [Invites -> Invite]
    <3>1. NoInvite \in Invite
      BY DEF NoInvite, Invite, Roles
    <3>2. QED
      BY <1>1, <3>1 DEF Init
  <2>6. \A i \in Invites : invites[i].status = "pending"
          => None \notin {invites[i].org, invites[i].who}
    <3>1. \A i \in Invites : invites[i] = NoInvite
                             \/ (invites[i].org \in Founded /\ invites[i].who # None)
      BY <1>1 DEF Init
    <3>2. NoInvite.status = "none" /\ None \notin Founded
      BY AccountsAssumption DEF NoInvite
    <3>3. QED
      BY <3>1, <3>2
  <2>7. FieldsOK /\ HeldSessionsAreOpen
    BY <2>2 DEF FieldsOK, HeldSessionsAreOpen, Fields, Held
  <2>8. QED
    BY <2>1, <2>3, <2>4, <2>5, <2>6, <2>7 DEF TypeInv, TypeOK
<1>2. QED
  BY <1>1

LEMMA NextTypeInv == TypeInv /\ [Next]_vars => TypeInv'
<1>1. ASSUME TypeInv, UNCHANGED vars
      PROVE  TypeInv'
  BY <1>1 DEF TypeInv, TypeOK, FieldsOK, HeldSessionsAreOpen, Held, vars
<1>2. ASSUME TypeInv, NEW r \in Requests, Arrive(r)
      PROVE  TypeInv'
  <2>1. \/ \E s \in Sessions, o \in Orgs, u \in Subjects, role \in Roles \cup {"none"} :
             StartMember(r, s, o, u, role)
        \/ \E s \in Sessions, o \in Orgs, u \in Subjects, role \in Roles :
             StartInvite(r, s, o, u, role)
        \/ \E s \in Sessions, o \in Orgs : StartArchive(r, s, o) \/ StartSwitch(r, s, o)
        \/ \E s \in Sessions, o \in Orgs : CreateOrganization(r, s, o)
        \/ \E s \in Sessions, i \in Invites : Resend(r, s, i) \/ Claim(r, s, i)
        \/ \E s \in Sessions, i \in Invites : Revoke(r, s, i)
        \/ \E s \in Sessions : Validate(r, s)
        \/ \E s \in Sessions : Logout(r, s)
        \/ \E u \in Subjects : StartLogin(r, u)
    BY <1>2 DEF Arrive
  <2>2. QED
    BY <1>2, <2>1, ReadingArrivalType, OrganizationType, SessionType, InvitationType
<1>3. ASSUME TypeInv, NEW r \in Requests, Step(r) \/ Fail(r)
      PROVE  TypeInv'
  BY <1>3, MemberType, ReadingStepType, OrganizationType, SessionType, InvitationType,
     AdmitType DEF Step
<1>4. ASSUME TypeInv, NEW i \in Invites, Expire(i)
      PROVE  TypeInv'
  BY <1>4, ExpireType
<1>5. QED
  BY <1>1, <1>2, <1>3, <1>4 DEF Next

\* The types hold in every state of the requests and rows of crates/auth.
THEOREM TypeCorrect == Spec => []TypeOK
<1>1. TypeInv => TypeOK
  BY DEF TypeInv
<1>2. QED
  BY InitTypeInv, NextTypeInv, <1>1, PTL DEF Spec

-----------------------------------------------------------------------------
(* An organization keeps an admin. *)

\* An organization that is not there has no members.
NoMembers == \A o \in Orgs : orgs[o] = "none" => \A u \in Subjects : ~Member(o, u)

\* What a transaction has checked of the rows it has locked holds until it writes: the
\* subject is a member, and the last admin stays.
SafeToWrite(q) == q.step = "write" => Member(q.org, q.who) /\ ~TakesLastAdmin(q)
WritesAreSafe == \A r \in Requests : SafeToWrite(req[r])

OneWriter ==
  \A r, t \in Requests : /\ req[r].step = "write" /\ req[t].step = "write"
                         /\ req[r].org = req[t].org
                         => r = t

ClosedExist == \A r \in Requests : req[r].step = "close" => orgs[req[r].org] # "none"

AdminsInv == NoMembers /\ WritesAreSafe /\ OneWriter /\ ClosedExist /\ AdminsRemain

\* The rows stay as they are and nobody locks any.
LEMMA AdminsFrame ==
  ASSUME TypeInv, AdminsInv, UNCHANGED <<orgs, members, lapsed>>,
         \A t \in Requests : req'[t] = req[t] \/ req'[t].step \notin {"write", "close"}
  PROVE  AdminsInv'
<1>1. NoMembers' /\ AdminsRemain'
  BY DEF AdminsInv, NoMembers, AdminsRemain, Member, Admins
<1>2. WritesAreSafe'
  BY DEF AdminsInv, WritesAreSafe, SafeToWrite, TakesLastAdmin, Member, Admins
<1>3. OneWriter'
  BY DEF AdminsInv, OneWriter
<1>4. ClosedExist'
  BY DEF AdminsInv, ClosedExist
<1>5. QED
  BY <1>1, <1>2, <1>3, <1>4 DEF AdminsInv

LEMMA AdminsQuiet ==
  ASSUME TypeInv, AdminsInv, NEW r \in Requests, NEW q, q.step \notin {"write", "close"},
         req' = [req EXCEPT ![r] = q], UNCHANGED <<orgs, members, lapsed>>
  PROVE  AdminsInv'
<1>1. \A t \in Requests : req'[t] = IF t = r THEN q ELSE req[t]
  BY DEF TypeInv, TypeOK
<1>2. QED
  BY <1>1, AdminsFrame

\* Steps that requests move to; a step moves one request.
Moves(steps) == \A t \in Requests : req'[t] = req[t] \/ req'[t].step \in steps
Asking == {"lock", "read", "mark", "set", "resolve", "choose", "done"}

LEMMA MovesTo ==
  ASSUME TypeInv, NEW r \in Requests, NEW q, req' = [req EXCEPT ![r] = q],
         NEW steps, q.step \in steps
  PROVE  Moves(steps)
BY DEF TypeInv, TypeOK, Moves

\* A request that arrives asks, or has claimed an invitation.
LEMMA ArriveMoves ==
  ASSUME TypeInv, NEW r \in Requests, Arrive(r),
         ~\E s \in Sessions, i \in Invites : Claim(r, s, i)
  PROVE  Moves(Asking)
<1>1. ASSUME NEW s \in Sessions, NEW o \in Orgs, NEW u \in Subjects,
             NEW role \in Roles \cup {"none"}, StartMember(r, s, o, u, role)
      PROVE  Moves(Asking)
  <2>1. DEFINE q == [Blank("lock") EXCEPT !.org = o, !.who = u, !.role = role]
  <2>2. req' = [req EXCEPT ![r] = q]
    BY <1>1 DEF StartMember, Begin
  <2>3. q.step = "lock"
    BY DEF Blank
  <2>4. QED
    BY <2>2, <2>3, MovesTo DEF Asking
<1>2. ASSUME NEW s \in Sessions, NEW o \in Orgs, NEW u \in Subjects,
             NEW role \in Roles, StartInvite(r, s, o, u, role)
      PROVE  Moves(Asking)
  <2>1. DEFINE q == [Blank("read") EXCEPT !.org = o, !.who = u, !.role = role]
  <2>2. req' = [req EXCEPT ![r] = q]
    BY <1>2 DEF StartInvite, Begin
  <2>3. q.step = "read"
    BY DEF Blank
  <2>4. QED
    BY <2>2, <2>3, MovesTo DEF Asking
<1>3. ASSUME NEW s \in Sessions, NEW o \in Orgs, StartArchive(r, s, o)
      PROVE  Moves(Asking)
  <2>1. DEFINE q == [Blank("mark") EXCEPT !.org = o]
  <2>2. req' = [req EXCEPT ![r] = q]
    BY <1>3 DEF StartArchive, Begin
  <2>3. q.step = "mark"
    BY DEF Blank
  <2>4. QED
    BY <2>2, <2>3, MovesTo DEF Asking
<1>4. ASSUME NEW s \in Sessions, NEW o \in Orgs, StartSwitch(r, s, o)
      PROVE  Moves(Asking)
  <2>1. DEFINE q == [Blank("set") EXCEPT !.sess = s, !.org = o]
  <2>2. req' = [req EXCEPT ![r] = q]
    BY <1>4 DEF StartSwitch, Begin
  <2>3. q.step = "set"
    BY DEF Blank
  <2>4. QED
    BY <2>2, <2>3, MovesTo DEF Asking
<1>5. ASSUME NEW s \in Sessions, Validate(r, s)
      PROVE  Moves(Asking)
  <2>1. DEFINE q == [Blank("resolve") EXCEPT !.sess = s, !.who = sessions[s].who,
                                             !.org = sessions[s].active]
  <2>2. req' = [req EXCEPT ![r] = q]
    BY <1>5 DEF Validate, Begin
  <2>3. q.step = "resolve"
    BY DEF Blank
  <2>4. QED
    BY <2>2, <2>3, MovesTo DEF Asking
<1>6. ASSUME NEW u \in Subjects, StartLogin(r, u)
      PROVE  Moves(Asking)
  <2>1. DEFINE q == [Blank("choose") EXCEPT !.who = u, !.seen = Memberships(u)]
  <2>2. req' = [req EXCEPT ![r] = q]
    BY <1>6 DEF StartLogin, Begin
  <2>3. q.step = "choose"
    BY DEF Blank
  <2>4. QED
    BY <2>2, <2>3, MovesTo DEF Asking
<1>7. CASE Begin(r, Blank("done"))
  <2>1. req' = [req EXCEPT ![r] = Blank("done")] /\ Blank("done").step = "done"
    BY <1>7 DEF Begin, Blank
  <2>2. QED
    BY <2>1, MovesTo DEF Asking
<1>8. ASSUME NEW s \in Sessions, NEW i \in Invites, Resend(r, s, i) \/ Revoke(r, s, i)
      PROVE  Moves(Asking)
  BY <1>7, <1>8 DEF Resend, Revoke
<1>9. ASSUME NEW s \in Sessions, NEW o \in Orgs, Logout(r, s) \/ CreateOrganization(r, s, o)
      PROVE  Moves(Asking)
  BY <1>7, <1>9 DEF Logout, CreateOrganization
<1>10. ASSUME NEW s \in Sessions, Logout(r, s)
       PROVE  Moves(Asking)
  BY <1>7, <1>10 DEF Logout
<1>11. QED
  BY <1>1, <1>2, <1>3, <1>4, <1>5, <1>6, <1>8, <1>9, <1>10 DEF Arrive

LEMMA ClaimMoves ==
  ASSUME TypeInv, NEW r \in Requests, NEW s \in Sessions, NEW i \in Invites, Claim(r, s, i)
  PROVE  \E q : /\ req' = [req EXCEPT ![r] = q]
                /\ q.step = "admit" /\ q.inv = i
                /\ q.org = invites[i].org /\ q.who = invites[i].who
<1>1. DEFINE q == [Blank("admit") EXCEPT !.sess = s, !.inv = i, !.org = invites[i].org,
                                         !.who = sessions[s].who, !.role = invites[i].role]
<1>2. req' = [req EXCEPT ![r] = q] /\ sessions[s].who = invites[i].who
  BY DEF Claim, Begin
<1>3. q.step = "admit" /\ q.inv = i /\ q.org = invites[i].org /\ q.who = sessions[s].who
  BY DEF Blank
<1>4. QED
  BY <1>2, <1>3

\* No step of a request that goes on claims an invitation, and two of them lock rows.
LEMMA StepMoves ==
  ASSUME TypeInv, NEW r \in Requests, Step(r) \/ Fail(r)
  PROVE  /\ Moves({"done", "found", "open", "insert", "repair", "write", "close"})
         /\ ~LockMembers(r) /\ ~MarkArchived(r)
              => Moves({"done", "found", "open", "insert", "repair"})
<1>1. req[r] \in Request
  BY DEF TypeInv, TypeOK
<1>2. CASE Finish(r)
  <2>1. req' = [req EXCEPT ![r] = Blank("done")] /\ Blank("done").step = "done"
    BY <1>2 DEF Finish, Blank
  <2>2. QED
    BY <2>1, MovesTo
<1>3. ASSUME NEW step \in {"write", "found", "open", "insert"}, Goto(r, step)
      PROVE  Moves({step})
  <2>1. req' = [req EXCEPT ![r] = [req[r] EXCEPT !.step = step]]
    BY <1>3 DEF Goto
  <2>2. [req[r] EXCEPT !.step = step].step = step
    BY <1>1 DEF Request
  <2>3. QED
    BY <2>1, <2>2, MovesTo
<1>4. ASSUME NEW o, NEW step \in {"repair", "open"},
             req' = [req EXCEPT ![r] = [req[r] EXCEPT !.step = step, !.org = o]]
      PROVE  Moves({step})
  <2>1. [req[r] EXCEPT !.step = step, !.org = o].step = step
    BY <1>1 DEF Request
  <2>2. QED
    BY <1>4, <2>1, MovesTo
<1>5. ASSUME NEW o, req' = [req EXCEPT ![r] =
                             [req[r] EXCEPT !.step = "open", !.org = o, !.seen = {}]]
      PROVE  Moves({"open"})
  <2>1. [req[r] EXCEPT !.step = "open", !.org = o, !.seen = {}].step = "open"
    BY <1>1 DEF Request
  <2>2. QED
    BY <1>5, <2>1, MovesTo
<1>6. ASSUME NEW set, req' = [req EXCEPT ![r] = [req[r] EXCEPT !.step = "close", !.seen = set]]
      PROVE  Moves({"close"})
  <2>1. [req[r] EXCEPT !.step = "close", !.seen = set].step = "close"
    BY <1>1 DEF Request
  <2>2. QED
    BY <1>6, <2>1, MovesTo
<1>7. CASE LockMembers(r) \/ MarkArchived(r)
  <2>1. Finish(r) \/ Moves({"write"}) \/ Moves({"close"})
    BY <1>3, <1>6, <1>7 DEF LockMembers, MarkArchived
  <2>2. QED
    BY <1>2, <1>7, <2>1 DEF Moves
<1>8. CASE ~LockMembers(r) /\ ~MarkArchived(r)
  <2>1. ASSUME Resolve(r) \/ Choose(r) \/ ReadInvite(r) \/ \E o \in Orgs : FoundPersonal(r, o)
        PROVE  Finish(r) \/ \E step \in {"found", "open", "insert", "repair"} : Moves({step})
    <3>1. CASE Resolve(r)
      BY <1>4, <3>1 DEF Resolve
    <3>2. CASE Choose(r)
      BY <1>3, <1>5, <3>2 DEF Choose
    <3>3. CASE \E o \in Orgs : FoundPersonal(r, o)
      BY <1>4, <3>3 DEF FoundPersonal
    <3>4. CASE ReadInvite(r)
      BY <1>3, <3>4 DEF ReadInvite
    <3>5. QED
      BY <2>1, <3>1, <3>2, <3>3, <3>4
  <2>2. Finish(r) \/ \E step \in {"found", "open", "insert", "repair"} : Moves({step})
    BY <1>8, <2>1 DEF Step, Fail, WriteMember, CloseOrganization, Switch,
       Repair, OpenSession, Admit, InsertInvite
  <2>3. QED
    BY <1>2, <2>2 DEF Moves
<1>9. QED
  BY <1>7, <1>8

\* Requests arrive; those that write at once found an organization or leave members alone.
LEMMA ArriveAdmins ==
  ASSUME TypeInv, AdminsInv, NEW r \in Requests, Arrive(r),
         ~\E s \in Sessions, o \in Orgs : CreateOrganization(r, s, o)
  PROVE  AdminsInv'
<1>1. UNCHANGED <<orgs, members, lapsed>>
  BY DEF Arrive, StartMember, StartInvite, StartArchive, StartSwitch, Resend, Revoke, Claim,
     Validate, Logout, StartLogin
<1>2. CASE \E s \in Sessions, i \in Invites : Claim(r, s, i)
  <2>1. PICK q : req' = [req EXCEPT ![r] = q] /\ q.step = "admit"
    BY <1>2, ClaimMoves
  <2>2. QED
    BY <1>1, <2>1, AdminsQuiet
<1>3. CASE ~\E s \in Sessions, i \in Invites : Claim(r, s, i)
  BY <1>1, <1>3, ArriveMoves, AdminsFrame DEF Moves, Asking
<1>4. QED
  BY <1>2, <1>3

\* The locks are taken on rows that nobody has locked, after the checks.
LEMMA LockAdmins ==
  ASSUME TypeInv, AdminsInv, NEW r \in Requests, LockMembers(r) \/ MarkArchived(r)
  PROVE  AdminsInv'
<1>1. UNCHANGED <<orgs, members, lapsed>> /\ req[r] \in Request
  BY DEF LockMembers, MarkArchived, TypeInv, TypeOK
<1>2. CASE Finish(r)
  <2>1. req' = [req EXCEPT ![r] = Blank("done")] /\ Blank("done").step = "done"
    BY <1>2 DEF Finish, Blank
  <2>2. QED
    BY <1>1, <2>1, AdminsQuiet
<1>3. ASSUME NEW q, req' = [req EXCEPT ![r] = q]
      PROVE  /\ NoMembers' /\ AdminsRemain'
             /\ \A t \in Requests : req'[t] = IF t = r THEN q ELSE req[t]
  BY <1>1, <1>3 DEF AdminsInv, NoMembers, AdminsRemain, Member, Admins, TypeInv, TypeOK
<1>4. CASE LockMembers(r) /\ ~Finish(r)
  <2>1. DEFINE q == [req[r] EXCEPT !.step = "write"]
  <2>2. /\ q.step = "write" /\ q.org = req[r].org /\ q.who = req[r].who
        /\ q.role = req[r].role
    BY <1>1 DEF Request
  <2>3. req' = [req EXCEPT ![r] = q]
    BY <1>4 DEF LockMembers, Goto
  <2>4. \A t \in Requests : req'[t] = IF t = r THEN q ELSE req[t]
    BY <1>3, <2>3
  <2>5. Member(q.org, q.who) /\ ~TakesLastAdmin(q)
    BY <1>4, <2>2 DEF LockMembers, TakesLastAdmin
  <2>6. \A t \in Requests : req[t].step = "write" => req[t].org # q.org
    BY <1>4, <2>2 DEF LockMembers, MembersLocked
  <2>7. WritesAreSafe'
    <3>1. \A t \in Requests : SafeToWrite(req[t]) /\ SafeToWrite(q)
      BY <2>5 DEF AdminsInv, WritesAreSafe, SafeToWrite
    <3>2. ASSUME NEW t \in Requests
          PROVE  SafeToWrite(req[t])'
      <4>1. PICK p : p = req'[t] /\ SafeToWrite(p)
        BY <2>4, <3>1
      <4>2. SafeToWrite(p)'
        BY <1>1, <4>1 DEF SafeToWrite, TakesLastAdmin, Member, Admins
      <4>3. QED
        BY <4>1, <4>2 DEF SafeToWrite, TakesLastAdmin, Member, Admins
    <3>3. QED
      BY <3>2 DEF WritesAreSafe
  <2>8. OneWriter'
    BY <2>4, <2>6 DEF AdminsInv, OneWriter
  <2>9. ClosedExist'
    BY <1>1, <2>2, <2>4 DEF AdminsInv, ClosedExist
  <2>10. QED
    BY <1>3, <2>3, <2>7, <2>8, <2>9 DEF AdminsInv
<1>5. CASE MarkArchived(r) /\ ~Finish(r)
  <2>1. DEFINE q == [req[r] EXCEPT !.step = "close",
                                   !.seen = {s \in Sessions : sessions[s].active = req[r].org}]
  <2>2. q.step = "close" /\ q.org = req[r].org
    BY <1>1 DEF Request
  <2>3. req' = [req EXCEPT ![r] = q] /\ orgs[req[r].org] = "live"
    BY <1>5 DEF MarkArchived
  <2>4. \A t \in Requests : req'[t] = IF t = r THEN q ELSE req[t]
    BY <1>3, <2>3
  <2>5. WritesAreSafe'
    <3>1. \A t \in Requests : SafeToWrite(req[t]) /\ SafeToWrite(q)
      BY <2>2 DEF AdminsInv, WritesAreSafe, SafeToWrite
    <3>2. ASSUME NEW t \in Requests
          PROVE  SafeToWrite(req[t])'
      <4>1. PICK p : p = req'[t] /\ SafeToWrite(p)
        BY <2>4, <3>1
      <4>2. SafeToWrite(p)'
        BY <1>1, <4>1 DEF SafeToWrite, TakesLastAdmin, Member, Admins
      <4>3. QED
        BY <4>1, <4>2 DEF SafeToWrite, TakesLastAdmin, Member, Admins
    <3>3. QED
      BY <3>2 DEF WritesAreSafe
  <2>6. OneWriter'
    BY <2>2, <2>4 DEF AdminsInv, OneWriter
  <2>7. ClosedExist'
    BY <1>1, <2>2, <2>3, <2>4 DEF AdminsInv, ClosedExist
  <2>8. QED
    BY <1>3, <2>3, <2>5, <2>6, <2>7 DEF AdminsInv
<1>6. QED
  BY <1>2, <1>4, <1>5

\* Steps that neither lock nor write members' and organizations' rows.
LEMMA StepAdmins ==
  ASSUME TypeInv, AdminsInv, NEW r \in Requests,
         \/ Switch(r) \/ Resolve(r) \/ Repair(r) \/ Choose(r) \/ ReadInvite(r) \/ Fail(r)
         \/ \E s \in Sessions : OpenSession(r, s)
         \/ \E i \in Invites : InsertInvite(r, i)
  PROVE  AdminsInv'
<1>1. UNCHANGED <<orgs, members, lapsed>>
  BY DEF Switch, Resolve, Repair, Choose, ReadInvite, Fail, OpenSession, InsertInvite
<1>2. CASE LockMembers(r) \/ MarkArchived(r)
  BY <1>2, LockAdmins
<1>3. CASE ~LockMembers(r) /\ ~MarkArchived(r)
  <2>1. Moves({"done", "found", "open", "insert", "repair"})
    BY <1>3, StepMoves DEF Step
  <2>2. QED
    BY <1>1, <2>1, AdminsFrame DEF Moves
<1>4. QED
  BY <1>2, <1>3

\* The request is the only one that writes to its organization, so nobody else's check is
\* of these rows; the admin it leaves is the one its own check found.
LEMMA WriteAdmins ==
  ASSUME TypeInv, AdminsInv, NEW r \in Requests, WriteMember(r)
  PROVE  AdminsInv'
<1>1. PICK q : q = req[r]
  OBVIOUS
<1>2. /\ q.step = "write" /\ q.org \in Orgs /\ q.who \in Subjects
      /\ q.role \in Roles \cup {"none"}
  BY <1>1 DEF WriteMember, TypeInv, TypeOK, FieldsOK, Fields, Request
<1>3. /\ members' = [members EXCEPT ![q.org][q.who] = q.role]
      /\ req' = [req EXCEPT ![r] = Blank("done")]
      /\ UNCHANGED <<orgs, lapsed>>
  BY <1>1 DEF WriteMember, Finish
<1>4. Blank("done").step = "done"
  BY DEF Blank
<1>5. \A t \in Requests : req'[t] = IF t = r THEN Blank("done") ELSE req[t]
  BY <1>3 DEF TypeInv, TypeOK
<1>6. members \in [Orgs -> [Subjects -> Roles \cup {"none"}]]
  BY DEF TypeInv, TypeOK
<1>7. /\ \A o \in Orgs \ {q.org}, u \in Subjects : members'[o][u] = members[o][u]
      /\ \A u \in Subjects \ {q.who} : members'[q.org][u] = members[q.org][u]
      /\ members'[q.org][q.who] = q.role
  BY <1>2, <1>3, <1>6
<1>8. members[q.org][q.who] # "none" /\ ~(q.role # "admin" /\ Admins(q.org) = {q.who})
  BY <1>1, <1>2 DEF AdminsInv, WritesAreSafe, SafeToWrite, TakesLastAdmin, Member
<1>9. orgs[q.org] # "none"
  BY <1>2, <1>8 DEF AdminsInv, NoMembers, Member
<1>10. NoMembers'
  BY <1>2, <1>3, <1>7, <1>9 DEF AdminsInv, NoMembers, Member
<1>11. AdminsRemain'
  <2>1. ASSUME NEW o \in Orgs, orgs[o] # "none", o \notin lapsed
        PROVE  Admins(o)' # {}
    <3>1. PICK u \in Subjects : members[o][u] = "admin"
      BY <2>1 DEF AdminsInv, AdminsRemain, Admins
    <3>2. CASE o # q.org
      BY <1>7, <3>1, <3>2 DEF Admins
    <3>3. CASE o = q.org /\ q.role = "admin"
      BY <1>2, <1>7, <3>3 DEF Admins
    <3>4. CASE o = q.org /\ q.role # "admin"
      <4>1. PICK v \in Subjects \ {q.who} : members[o][v] = "admin"
        BY <1>2, <1>8, <3>1, <3>4 DEF Admins
      <4>2. QED
        BY <1>7, <3>4, <4>1 DEF Admins
    <3>5. QED
      BY <3>2, <3>3, <3>4
  <2>2. QED
    BY <1>3, <2>1 DEF AdminsRemain
<1>12. ASSUME NEW t \in Requests, (req[t].step)' = "write"
       PROVE  SafeToWrite(req[t])'
  <2>1. t # r /\ req'[t] = req[t] /\ req[t].step = "write"
    BY <1>4, <1>5, <1>12
  <2>2. PICK o, u : o = req[t].org /\ u = req[t].who
    OBVIOUS
  <2>3. o \in Orgs \ {q.org} /\ u \in Subjects
    BY <1>1, <1>2, <2>1, <2>2 DEF AdminsInv, OneWriter, TypeInv, FieldsOK, Fields
  <2>4. members[o][u] # "none" /\ ~(req[t].role # "admin" /\ Admins(o) = {u})
    BY <2>1, <2>2 DEF AdminsInv, WritesAreSafe, SafeToWrite, TakesLastAdmin, Member
  <2>5. members'[o][u] = members[o][u] /\ Admins(o)' = Admins(o)
    BY <1>7, <2>3 DEF Admins
  <2>6. QED
    BY <2>1, <2>2, <2>4, <2>5 DEF SafeToWrite, TakesLastAdmin, Member, Admins
<1>13. OneWriter' /\ ClosedExist'
  BY <1>3, <1>4, <1>5 DEF AdminsInv, OneWriter, ClosedExist
<1>14. WritesAreSafe'
  BY <1>12 DEF WritesAreSafe, SafeToWrite
<1>15. QED
  BY <1>10, <1>11, <1>13, <1>14 DEF AdminsInv

LEMMA CloseAdmins ==
  ASSUME TypeInv, AdminsInv, NEW r \in Requests, CloseOrganization(r)
  PROVE  AdminsInv'
<1>1. PICK o \in Orgs : o = req[r].org
  BY DEF CloseOrganization, TypeInv, FieldsOK, Fields
<1>2. /\ orgs' = [orgs EXCEPT ![o] = "archived"]
      /\ req' = [req EXCEPT ![r] = Blank("done")]
      /\ UNCHANGED <<members, lapsed>>
  BY <1>1 DEF CloseOrganization, Finish
<1>3. orgs[o] # "none"
  BY <1>1 DEF CloseOrganization, AdminsInv, ClosedExist
<1>4. \A t \in Requests : req'[t] = req[t] \/ req'[t].step = "done"
  BY <1>2 DEF TypeInv, TypeOK, Blank
<1>5. \A p \in Orgs : orgs'[p] = "none" <=> orgs[p] = "none"
  BY <1>2, <1>3 DEF TypeInv, TypeOK
<1>6. NoMembers' /\ AdminsRemain'
  BY <1>2, <1>5 DEF AdminsInv, NoMembers, AdminsRemain, Member, Admins
<1>7. WritesAreSafe'
  BY <1>2, <1>4 DEF AdminsInv, WritesAreSafe, SafeToWrite, TakesLastAdmin, Member, Admins
<1>8. OneWriter'
  BY <1>4 DEF AdminsInv, OneWriter
<1>9. ClosedExist'
  <2>1. ASSUME NEW t \in Requests, req'[t].step = "close"
        PROVE  orgs'[req'[t].org] # "none"
    <3>1. req'[t] = req[t] /\ req[t].org \in Orgs
      BY <1>4, <2>1 DEF TypeInv, FieldsOK, Fields
    <3>2. QED
      BY <1>5, <2>1, <3>1 DEF AdminsInv, ClosedExist
  <2>2. QED
    BY <2>1 DEF ClosedExist
<1>10. QED
  BY <1>6, <1>7, <1>8, <1>9 DEF AdminsInv

\* A member's row is written while nobody else has locked it: those who have locked rows of
\* its organization have looked at other members, and an admin fewer is not theirs to lose.
LEMMA RowWritten ==
  ASSUME TypeInv, AdminsInv, NEW o \in Orgs, NEW u \in Subjects, NEW role \in Roles,
         members' = [members EXCEPT ![o][u] = role],
         \A t \in Requests : req'[t] = req[t] \/ req'[t].step \notin {"write", "close"},
         \A t \in Requests : req[t].step = "write" /\ req[t].org = o => members[o][u] = "none"
  PROVE  WritesAreSafe' /\ OneWriter'
<1>1. members \in [Orgs -> [Subjects -> Roles \cup {"none"}]]
  BY DEF TypeInv, TypeOK
<1>2. /\ \A p \in Orgs \ {o}, v \in Subjects : members'[p][v] = members[p][v]
      /\ \A v \in Subjects \ {u} : members'[o][v] = members[o][v]
      /\ members'[o][u] = role
  BY <1>1
<1>3. ASSUME NEW t \in Requests, (req[t].step)' = "write"
      PROVE  SafeToWrite(req[t])'
  <2>1. req'[t] = req[t] /\ req[t].step = "write"
    BY <1>3
  <2>2. PICK p \in Orgs, v \in Subjects : p = req[t].org /\ v = req[t].who
    BY <2>1 DEF TypeInv, FieldsOK, Fields
  <2>3. members[p][v] # "none" /\ ~(req[t].role # "admin" /\ Admins(p) = {v})
    BY <2>1, <2>2 DEF AdminsInv, WritesAreSafe, SafeToWrite, TakesLastAdmin, Member
  <2>4. members'[p][v] # "none"
    BY <1>2, <2>3 DEF Roles
  <2>5. Admins(p)' = {v} => Admins(p) = {v}
    <3>1. CASE p # o
      BY <1>2, <3>1 DEF Admins
    <3>2. CASE p = o
      <4>1. v # u /\ members[o][u] = "none"
        BY <2>1, <2>2, <2>3, <3>2
      <4>2. \A w \in Subjects : members'[o][w] = "admin" => members[o][w] = "admin" \/ w = u
        BY <1>2
      <4>3. members[o][v] = members'[o][v]
        BY <1>2, <4>1
      <4>4. \A w \in Subjects : members[o][w] = "admin" => members'[o][w] = "admin"
        BY <1>2, <4>1
      <4>5. QED
        BY <3>2, <4>1, <4>2, <4>3, <4>4 DEF Admins
    <3>3. QED
      BY <3>1, <3>2
  <2>6. QED
    BY <2>1, <2>2, <2>3, <2>4, <2>5 DEF SafeToWrite, TakesLastAdmin, Member
<1>4. WritesAreSafe'
  BY <1>3 DEF WritesAreSafe, SafeToWrite
<1>5. OneWriter'
  BY DEF AdminsInv, OneWriter
<1>6. QED
  BY <1>4, <1>5

LEMMA FoundAdmins ==
  ASSUME TypeInv, AdminsInv, NEW r \in Requests, NEW o \in Orgs,
         FoundPersonal(r, o) \/ \E s \in Sessions : CreateOrganization(r, s, o)
  PROVE  AdminsInv'
<1>1. PICK u \in Subjects : members' = [members EXCEPT ![o][u] = "admin"]
  <2>1. CASE FoundPersonal(r, o)
    BY <2>1 DEF FoundPersonal, TypeInv, FieldsOK, Fields
  <2>2. CASE \E s \in Sessions : CreateOrganization(r, s, o)
    <3>1. PICK s \in Sessions : CreateOrganization(r, s, o)
      BY <2>2
    <3>2. sessions[s].who \in Subjects
      BY <3>1 DEF CreateOrganization, TypeInv, TypeOK, Session
    <3>3. QED
      BY <3>1, <3>2 DEF CreateOrganization
  <2>3. QED
    BY <2>1, <2>2
<1>2. orgs[o] = "none" /\ orgs' = [orgs EXCEPT ![o] = "live"] /\ UNCHANGED lapsed
  BY DEF FoundPersonal, CreateOrganization
<1>3. req[r] \in Request
  BY DEF TypeInv, TypeOK
<1>4. PICK q : req' = [req EXCEPT ![r] = q] /\ q.step \in {"open", "done"}
  <2>1. CASE FoundPersonal(r, o)
    <3>1. [req[r] EXCEPT !.step = "open", !.org = o].step = "open"
      BY <1>3 DEF Request
    <3>2. req' = [req EXCEPT ![r] = [req[r] EXCEPT !.step = "open", !.org = o]]
      BY <2>1 DEF FoundPersonal
    <3>3. QED
      BY <3>1, <3>2
  <2>2. CASE \E s \in Sessions : CreateOrganization(r, s, o)
    <3>1. req' = [req EXCEPT ![r] = Blank("done")]
      BY <2>2 DEF CreateOrganization, Begin
    <3>2. Blank("done").step = "done"
      BY DEF Blank
    <3>3. QED
      BY <3>1, <3>2
  <2>3. QED
    BY <2>1, <2>2
<1>5. \A t \in Requests : req'[t] = req[t] \/ req'[t].step \notin {"write", "close"}
  BY <1>4 DEF TypeInv, TypeOK
<1>6. /\ \A v \in Subjects : members[o][v] = "none"
      /\ \A t \in Requests : req[t].step = "write" => req[t].org # o
  BY <1>2 DEF AdminsInv, NoMembers, WritesAreSafe, SafeToWrite, Member, TypeInv, FieldsOK, Fields
<1>7. WritesAreSafe' /\ OneWriter'
  BY <1>1, <1>5, <1>6, RowWritten DEF Roles
<1>8. /\ \A p \in Orgs \ {o} : orgs'[p] = orgs[p]
      /\ orgs'[o] = "live"
  BY <1>2 DEF TypeInv, TypeOK
<1>9. /\ \A p \in Orgs \ {o}, v \in Subjects : members'[p][v] = members[p][v]
      /\ members'[o][u] = "admin"
  BY <1>1 DEF TypeInv, TypeOK
<1>10. NoMembers'
  BY <1>8, <1>9 DEF AdminsInv, NoMembers, Member
<1>11. AdminsRemain'
  BY <1>2, <1>8, <1>9 DEF AdminsInv, AdminsRemain, Admins
<1>12. ClosedExist'
  <2>1. ASSUME NEW t \in Requests, req'[t].step = "close"
        PROVE  orgs'[req'[t].org] # "none"
    <3>1. req'[t] = req[t] /\ req[t].org \in Orgs
      BY <1>5, <2>1 DEF TypeInv, FieldsOK, Fields
    <3>2. QED
      BY <1>8, <2>1, <3>1 DEF AdminsInv, ClosedExist
  <2>2. QED
    BY <2>1 DEF ClosedExist
<1>13. QED
  BY <1>7, <1>10, <1>11, <1>12 DEF AdminsInv

\* An acceptance waits for whoever has locked the member's row; who has locked the others'
\* rows has not counted on this one.
LEMMA AdmitAdmins ==
  ASSUME TypeInv, AdminsInv, NEW r \in Requests, Admit(r)
  PROVE  AdminsInv'
<1>1. PICK o \in Orgs, u \in Subjects, role \in Roles :
        o = req[r].org /\ u = req[r].who /\ role = req[r].role
  BY DEF Admit, TypeInv, FieldsOK, Fields
<1>2. req' = [req EXCEPT ![r] = Blank("done")] /\ UNCHANGED orgs
  BY DEF Admit, Finish
<1>3. Blank("done").step = "done"
  BY DEF Blank
<1>4. \A t \in Requests : req'[t] = req[t] \/ req'[t].step \notin {"write", "close"}
  BY <1>2, <1>3 DEF TypeInv, TypeOK
<1>5. CASE orgs[o] # "live"
  <2>1. UNCHANGED <<orgs, members, lapsed>>
    BY <1>1, <1>2, <1>5 DEF Admit
  <2>2. QED
    BY <1>4, <2>1, AdminsFrame
<1>6. CASE orgs[o] = "live"
  <2>1. /\ members' = [members EXCEPT ![o][u] = role]
        /\ lapsed' = IF Admins(o) \ {u} = {} /\ role = "viewer" THEN lapsed \cup {o} ELSE lapsed
    BY <1>1, <1>6 DEF Admit
  <2>2. \A t \in Requests : req[t].step = "write" /\ req[t].org = o => members[o][u] = "none"
    BY <1>1 DEF Admit, MembersLocked, Member
  <2>3. WritesAreSafe' /\ OneWriter'
    BY <1>4, <2>1, <2>2, RowWritten
  <2>4. /\ \A p \in Orgs \ {o}, v \in Subjects : members'[p][v] = members[p][v]
        /\ \A v \in Subjects \ {u} : members'[o][v] = members[o][v]
        /\ members'[o][u] = role
    BY <2>1 DEF TypeInv, TypeOK
  <2>5. NoMembers'
    BY <1>2, <1>6, <2>4 DEF AdminsInv, NoMembers, Member
  <2>6. ASSUME NEW p \in Orgs, orgs[p] # "none", p \notin lapsed'
        PROVE  Admins(p)' # {}
    <3>1. p \notin lapsed
      BY <2>1, <2>6
    <3>2. CASE p # o
      BY <2>4, <2>6, <3>1, <3>2 DEF AdminsInv, AdminsRemain, Admins
    <3>3. CASE p = o /\ role = "admin"
      BY <2>4, <3>3 DEF Admins
    <3>4. CASE p = o /\ role # "admin"
      <4>1. PICK v \in Subjects \ {u} : members[o][v] = "admin"
        BY <2>1, <2>6, <3>4 DEF Roles, Admins
      <4>2. QED
        BY <2>4, <3>4, <4>1 DEF Admins
    <3>5. QED
      BY <3>2, <3>3, <3>4
  <2>7. AdminsRemain'
    BY <1>2, <2>6 DEF AdminsRemain
  <2>8. ClosedExist'
    BY <1>2, <1>4 DEF AdminsInv, ClosedExist
  <2>9. QED
    BY <2>3, <2>5, <2>7, <2>8 DEF AdminsInv
<1>7. QED
  BY <1>5, <1>6

LEMMA InitAdmins == Init => AdminsInv
<1>1. ASSUME Init PROVE AdminsInv
  <2>1. \A r \in Requests : req[r].step = "idle"
    BY <1>1 DEF Init, Blank
  <2>2. WritesAreSafe /\ OneWriter /\ ClosedExist
    BY <2>1 DEF WritesAreSafe, SafeToWrite, OneWriter, ClosedExist
  <2>3. \A o \in Orgs : orgs[o] = IF o \in Founded THEN "live" ELSE "none"
    BY <1>1 DEF Init
  <2>4. \A o \in Orgs : IF o \in Founded THEN Admins(o) # {}
                        ELSE members[o] = [u \in Subjects |-> "none"]
    BY <1>1 DEF Init
  <2>5. NoMembers
    <3>1. ASSUME NEW o \in Orgs, orgs[o] = "none"
          PROVE  \A u \in Subjects : members[o][u] = "none"
      BY <2>3, <2>4, <3>1
    <3>2. QED
      BY <3>1 DEF NoMembers, Member
  <2>6. AdminsRemain
    BY <2>3, <2>4 DEF AdminsRemain
  <2>7. QED
    BY <2>2, <2>5, <2>6 DEF AdminsInv
<1>2. QED
  BY <1>1

LEMMA NextAdmins == TypeInv /\ AdminsInv /\ [Next]_vars => AdminsInv'
<1>1. ASSUME TypeInv, AdminsInv, UNCHANGED vars
      PROVE  AdminsInv'
  BY <1>1, AdminsFrame DEF vars
<1>2. ASSUME TypeInv, AdminsInv, NEW r \in Requests, Arrive(r)
      PROVE  AdminsInv'
  BY <1>2, ArriveAdmins, FoundAdmins
<1>3. ASSUME TypeInv, AdminsInv, NEW r \in Requests, Step(r) \/ Fail(r)
      PROVE  AdminsInv'
  BY <1>3, LockAdmins, WriteAdmins, CloseAdmins, FoundAdmins, StepAdmins, AdmitAdmins DEF Step
<1>4. ASSUME TypeInv, AdminsInv, NEW i \in Invites, Expire(i)
      PROVE  AdminsInv'
  BY <1>4, AdminsFrame DEF Expire
<1>5. QED
  BY <1>1, <1>2, <1>3, <1>4 DEF Next

\* Role changes and removals beside each other never take an organization's last admin away
\* (set_organization_member_role, remove_organization_member).
THEOREM AdminsStay == Spec => []AdminsRemain
<1>1. AdminsInv => AdminsRemain
  BY DEF AdminsInv
<1>2. QED
  BY InitTypeInv, NextTypeInv, InitAdmins, NextAdmins, <1>1, PTL DEF Spec

-----------------------------------------------------------------------------
(* Invitations. *)

\* A request that has claimed an invitation is the only one, and the invitation waits.
ClaimHolds(q) ==
  q.step = "admit" => /\ invites[q.inv].status = "pending"
                      /\ invites[q.inv].who = q.who /\ invites[q.inv].org = q.org
ClaimsHold == \A r \in Requests : ClaimHolds(req[r])

OneClaim ==
  \A r, t \in Requests : req[r].step = "admit" /\ req[t].step = "admit"
                         /\ req[r].inv = req[t].inv => r = t

InvitesInv == ClaimsHold /\ OneClaim /\ InvitationsAdmitOnce

\* Invitations that are claimed or accepted keep what matters of them.
Kept == \A i \in Invites :
  InviteLocked(i) \/ invites[i].status = "accepted"
    => /\ invites'[i].status = invites[i].status
       /\ invites'[i].who = invites[i].who /\ invites'[i].org = invites[i].org

LEMMA InvitesFrame ==
  ASSUME TypeInv, InvitesInv, Kept, UNCHANGED admitted,
         \A t \in Requests : req'[t] = req[t] \/ req'[t].step # "admit"
  PROVE  InvitesInv'
<1>1. ASSUME NEW t \in Requests, req'[t].step = "admit"
      PROVE  /\ req'[t] = req[t] /\ req[t].step = "admit"
             /\ invites'[req[t].inv].status = "pending"
             /\ invites'[req[t].inv].who = req[t].who
             /\ invites'[req[t].inv].org = req[t].org
  <2>1. req'[t] = req[t] /\ req[t].step = "admit"
    BY <1>1
  <2>2. req[t].inv \in Invites /\ InviteLocked(req[t].inv)
    BY <2>1 DEF TypeInv, FieldsOK, Fields, InviteLocked
  <2>3. ClaimHolds(req[t])
    BY DEF InvitesInv, ClaimsHold
  <2>4. QED
    BY <2>1, <2>2, <2>3 DEF Kept, ClaimHolds
<1>2. ClaimsHold'
  BY <1>1 DEF ClaimsHold, ClaimHolds
<1>3. OneClaim'
  BY <1>1 DEF InvitesInv, OneClaim
<1>4. InvitationsAdmitOnce'
  <2>1. \A a \in admitted : a[2] \in Invites
    BY DEF TypeInv, TypeOK
  <2>2. QED
    BY <2>1 DEF InvitesInv, InvitationsAdmitOnce, Kept
<1>5. QED
  BY <1>2, <1>3, <1>4 DEF InvitesInv

\* Invitations are written that are neither claimed nor accepted, and accepted by nobody.
Rewritten ==
  /\ UNCHANGED admitted
  /\ \A i \in Invites : \/ invites'[i] = invites[i]
                         \/ /\ invites[i].status # "accepted" /\ ~InviteLocked(i)
                            /\ invites'[i].status # "accepted"

LEMMA KeptByExpiry ==
  ASSUME TypeInv, NEW i \in Invites, Expire(i)
  PROVE  /\ Kept /\ UNCHANGED admitted
         /\ \A j \in Invites : invites'[j].status = "accepted" => invites[j].status = "accepted"
<1>1. \A j \in Invites : invites[j] \in Invite
  BY DEF TypeInv, TypeOK
<1>2. \A j \in Invites : invites'[j] = invites[j]
                         \/ invites'[j] = [invites[j] EXCEPT !.expired = TRUE]
  BY DEF Expire, TypeInv, TypeOK
<1>3. \A j \in Invites : /\ invites'[j].status = invites[j].status
                         /\ invites'[j].who = invites[j].who
                         /\ invites'[j].org = invites[j].org
  BY <1>1, <1>2 DEF Invite
<1>4. QED
  BY <1>3 DEF Kept, Expire

\* What every step of a request but Admit does to invitations.
LEMMA KeptByOthers ==
  ASSUME TypeInv, InvitesInv, NEW r \in Requests,
         Arrive(r) \/ (Step(r) /\ ~Admit(r)) \/ Fail(r)
  PROVE  /\ Kept /\ UNCHANGED admitted
         /\ \A i \in Invites : invites'[i].status = "accepted" => invites[i].status = "accepted"
<1>1. \A i \in Invites : invites[i] \in Invite
  BY DEF TypeInv, TypeOK
<1>2. CASE UNCHANGED <<invites, admitted>>
  BY <1>2 DEF Kept
<1>3. ASSUME Rewritten
      PROVE  /\ Kept /\ UNCHANGED admitted
             /\ \A i \in Invites : invites'[i].status = "accepted" => invites[i].status = "accepted"
  BY <1>3 DEF Kept, Rewritten
<1>4. \A i \in Invites : LET revoked == [invites[i] EXCEPT !.status = "revoked"]
                         IN  revoked.status = "revoked"
  BY <1>1 DEF Invite
<1>5. ASSUME NEW s \in Sessions, NEW o \in Orgs, NEW u \in Subjects, NEW role \in Roles,
             StartInvite(r, s, o, u, role)
      PROVE  Rewritten
  BY <1>4, <1>5 DEF StartInvite, Rewritten
<1>6. ASSUME CloseOrganization(r)
      PROVE  Rewritten
  BY <1>4, <1>6 DEF CloseOrganization, Rewritten
<1>7. ASSUME NEW s \in Sessions, NEW i \in Invites, Revoke(r, s, i)
      PROVE  Rewritten
  <2>1. invites' = [invites EXCEPT ![i] = [invites[i] EXCEPT !.status = "revoked"]]
    BY <1>7 DEF Revoke
  <2>2. QED
    BY <1>4, <1>7, <2>1 DEF Revoke, Rewritten, TypeInv, TypeOK
<1>8. ASSUME NEW i \in Invites, InsertInvite(r, i)
      PROVE  Rewritten
  <2>1. invites[i].status = "none"
    BY <1>8 DEF InsertInvite, NoInvite
  <2>2. ~InviteLocked(i)
    BY <2>1 DEF InviteLocked, InvitesInv, ClaimsHold, ClaimHolds
  <2>3. \/ UNCHANGED invites
        \/ invites' = [invites EXCEPT ![i] = [org |-> req[r].org, who |-> req[r].who,
                         role |-> req[r].role, status |-> "pending", expired |-> FALSE]]
    BY <1>8 DEF InsertInvite
  <2>4. \A j \in Invites : invites'[j] = invites[j] \/ (j = i /\ invites'[j].status = "pending")
    BY <2>3 DEF TypeInv, TypeOK
  <2>5. QED
    BY <1>8, <2>1, <2>2, <2>4 DEF Rewritten, InsertInvite
<1>9. UNCHANGED <<invites, admitted>> \/ Rewritten
  <2>1. CASE Fail(r)
    BY <2>1 DEF Fail
  <2>2. CASE Arrive(r)
    BY <1>5, <1>7, <2>2 DEF Arrive, StartMember, StartArchive, CreateOrganization, StartSwitch,
       Resend, Claim, Validate, Logout, StartLogin
  <2>3. CASE Step(r) /\ ~Admit(r)
    BY <1>6, <1>8, <2>3 DEF Step, LockMembers, WriteMember, MarkArchived, Switch, Resolve,
       Repair, Choose, FoundPersonal, OpenSession, ReadInvite
  <2>4. QED
    BY <2>1, <2>2, <2>3
<1>10. QED
  BY <1>2, <1>3, <1>9

LEMMA ClaimInvites ==
  ASSUME TypeInv, InvitesInv, NEW r \in Requests, NEW s \in Sessions, NEW i \in Invites,
         Claim(r, s, i)
  PROVE  InvitesInv'
<1>1. UNCHANGED <<invites, admitted>>
  BY DEF Claim
<1>2. PICK q : /\ req' = [req EXCEPT ![r] = q]
               /\ q.step = "admit" /\ q.inv = i
               /\ q.org = invites[i].org /\ q.who = invites[i].who
  BY ClaimMoves
<1>3. \A t \in Requests : req'[t] = IF t = r THEN q ELSE req[t]
  BY <1>2 DEF TypeInv, TypeOK
<1>4. invites[i].status = "pending" /\ \A t \in Requests : req[t].step = "admit" => req[t].inv # i
  BY DEF Claim, InviteLocked
<1>5. ClaimsHold'
  BY <1>1, <1>2, <1>3, <1>4 DEF InvitesInv, ClaimsHold, ClaimHolds
<1>6. OneClaim'
  BY <1>2, <1>3, <1>4 DEF InvitesInv, OneClaim
<1>7. InvitationsAdmitOnce'
  BY <1>1 DEF InvitesInv, InvitationsAdmitOnce
<1>8. QED
  BY <1>5, <1>6, <1>7 DEF InvitesInv

\* The claim makes the acceptance the first of its invitation, and the last.
LEMMA AdmitInvites ==
  ASSUME TypeInv, InvitesInv, NEW r \in Requests, Admit(r)
  PROVE  /\ InvitesInv'
         /\ \A i \in Invites : invites'[i].status = "accepted" /\ invites[i].status # "accepted"
              => invites[i].status = "pending" /\ orgs[invites[i].org] = "live"
<1>1. PICK i \in Invites, u \in Subjects :
        /\ i = req[r].inv /\ u = req[r].who /\ req[r].step = "admit"
        /\ invites[i].org = req[r].org
        /\ invites[i].who = u /\ invites[i].status = "pending"
  BY DEF Admit, TypeInv, FieldsOK, Fields, InvitesInv, ClaimsHold, ClaimHolds
<1>2. req' = [req EXCEPT ![r] = Blank("done")] /\ Blank("done").step = "done"
  BY DEF Admit, Finish, Blank
<1>3. \A t \in Requests : req'[t] = IF t = r THEN Blank("done") ELSE req[t]
  BY <1>2 DEF TypeInv, TypeOK
<1>4. CASE orgs[req[r].org] # "live"
  <2>1. UNCHANGED <<invites, admitted>>
    BY <1>4 DEF Admit
  <2>2. Kept
    BY <2>1 DEF Kept
  <2>3. QED
    BY <1>2, <1>3, <2>1, <2>2, InvitesFrame
<1>5. CASE orgs[req[r].org] = "live"
  <2>1. /\ invites' = [invites EXCEPT ![i] = [invites[i] EXCEPT !.status = "accepted"]]
        /\ admitted' = admitted \cup {<<r, i, u>>}
    BY <1>1, <1>5 DEF Admit
  <2>2. invites[i] \in Invite
    BY DEF TypeInv, TypeOK
  <2>3. /\ \A j \in Invites \ {i} : invites'[j] = invites[j]
        /\ invites'[i].status = "accepted" /\ invites'[i].who = u
    BY <1>1, <2>1, <2>2 DEF TypeInv, TypeOK, Invite
  <2>4. \A t \in Requests : req'[t].step = "admit"
          => req'[t] = req[t] /\ req[t].inv \in Invites \ {i}
    BY <1>1, <1>2, <1>3 DEF InvitesInv, OneClaim, TypeInv, FieldsOK, Fields
  <2>5. ASSUME NEW t \in Requests, req'[t].step = "admit"
        PROVE  /\ invites'[req'[t].inv].status = "pending"
               /\ invites'[req'[t].inv].who = req'[t].who
               /\ invites'[req'[t].inv].org = req'[t].org
    BY <2>3, <2>4, <2>5 DEF InvitesInv, ClaimsHold, ClaimHolds
  <2>6. ClaimsHold'
    BY <2>5 DEF ClaimsHold, ClaimHolds
  <2>7. OneClaim'
    BY <2>4 DEF InvitesInv, OneClaim
  <2>8. \A a \in admitted : /\ a[2] \in Invites /\ a[2] # i
                            /\ invites[a[2]].status = "accepted" /\ invites[a[2]].who = a[3]
    BY <1>1 DEF InvitesInv, InvitationsAdmitOnce, TypeInv, TypeOK
  <2>9. InvitationsAdmitOnce'
    <3>1. \A a \in admitted' : a \in admitted \/ (a = <<r, i, u>> /\ a[2] = i /\ a[3] = u)
      BY <2>1
    <3>2. QED
      BY <2>3, <2>8, <3>1 DEF InvitesInv, InvitationsAdmitOnce
  <2>10. QED
    BY <1>1, <1>5, <2>3, <2>6, <2>7, <2>9 DEF InvitesInv
<1>6. QED
  BY <1>4, <1>5

LEMMA InitInvites == Init => InvitesInv
<1>1. ASSUME Init PROVE InvitesInv
  <2>1. \A r \in Requests : req[r].step = "idle"
    BY <1>1 DEF Init, Blank
  <2>2. admitted = {}
    BY <1>1 DEF Init
  <2>3. QED
    BY <2>1, <2>2 DEF InvitesInv, ClaimsHold, ClaimHolds, OneClaim, InvitationsAdmitOnce
<1>2. QED
  BY <1>1

LEMMA NextInvites ==
  ASSUME TypeInv, InvitesInv, [Next]_vars
  PROVE  /\ InvitesInv'
         /\ \A i \in Invites : invites'[i].status = "accepted" /\ invites[i].status # "accepted"
              => invites[i].status = "pending" /\ orgs[invites[i].org] = "live"
<1>1. CASE UNCHANGED vars
  BY <1>1, InvitesFrame DEF vars, Kept
<1>2. ASSUME NEW r \in Requests, Admit(r)
      PROVE  /\ InvitesInv'
             /\ \A i \in Invites : invites'[i].status = "accepted" /\ invites[i].status # "accepted"
                  => invites[i].status = "pending" /\ orgs[invites[i].org] = "live"
  BY <1>2, AdmitInvites
<1>3. ASSUME NEW r \in Requests, Arrive(r)
      PROVE  InvitesInv'
  <2>1. CASE \E s \in Sessions, i \in Invites : Claim(r, s, i)
    BY <2>1, ClaimInvites
  <2>2. CASE ~\E s \in Sessions, i \in Invites : Claim(r, s, i)
    <3>1. Moves(Asking) /\ Kept /\ UNCHANGED admitted
      BY <1>3, <2>2, ArriveMoves, KeptByOthers
    <3>2. QED
      BY <3>1, InvitesFrame DEF Moves, Asking
  <2>3. QED
    BY <2>1, <2>2
<1>4. ASSUME NEW r \in Requests, (Step(r) /\ ~Admit(r)) \/ Fail(r)
      PROVE  InvitesInv'
  <2>1. /\ Moves({"done", "found", "open", "insert", "repair", "write", "close"})
        /\ Kept /\ UNCHANGED admitted
    BY <1>4, StepMoves, KeptByOthers
  <2>2. QED
    BY <2>1, InvitesFrame DEF Moves
<1>5. ASSUME NEW i \in Invites, Expire(i)
      PROVE  InvitesInv'
  <2>1. Kept /\ UNCHANGED <<req, admitted>>
    BY <1>5, KeptByExpiry DEF Expire
  <2>2. QED
    BY <2>1, InvitesFrame
<1>6. QED
  BY <1>1, <1>2, <1>3, <1>4, <1>5, KeptByOthers, KeptByExpiry DEF Next

\* accept_organization_invitation: an invitation admits at most one request's subject.
THEOREM AcceptedOnce == Spec => []InvitationsAdmitOnce
<1>1. TypeInv /\ InvitesInv /\ [Next]_vars => InvitesInv'
  BY NextInvites
<1>2. InvitesInv => InvitationsAdmitOnce
  BY DEF InvitesInv
<1>3. QED
  BY InitTypeInv, NextTypeInv, InitInvites, <1>1, <1>2, PTL DEF Spec

\* An acceptance commits for a pending invitation of a live organization only, although the
\* statements that looked at both have long run.
THEOREM AcceptancesAreTimely == Spec => AcceptanceIsTimely
<1>1. TypeInv /\ InvitesInv /\ [Next]_vars
        => InvitesInv' /\ [\A i \in Invites :
             invites'[i].status = "accepted" /\ invites[i].status # "accepted"
               => invites[i].status = "pending" /\ orgs[invites[i].org] = "live"]_vars
  BY NextInvites
<1>2. QED
  BY InitTypeInv, NextTypeInv, InitInvites, <1>1, PTL DEF Spec, AcceptanceIsTimely
=============================================================================
