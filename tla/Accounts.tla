------------------------------ MODULE Accounts ------------------------------
(***************************************************************************)
(* crates/auth: organizations, their members, sessions and invitations in  *)
(* Postgres, and the requests of apps/server that change them.  A request  *)
(* runs one operation, statement by statement, beside others.              *)
(*                                                                         *)
(* Postgres is external (READ COMMITTED): a statement sees what is         *)
(* committed when it runs; what a transaction writes is seen when it       *)
(* commits; a row it has locked or written waits for its end.  Statements  *)
(* of a transaction that no other can tell apart are one step.  Every      *)
(* request first validates its session, as Validate does; a repair this    *)
(* may make is that of a Validate request beside it.  The audit row that   *)
(* ends a handler, the users' rows and names are left out.                 *)
(***************************************************************************)
EXTENDS FiniteSets

CONSTANTS
  Orgs,                  \* ids of organizations
  Subjects,              \* users, each with one email
  Sessions,              \* session tokens
  Invites,               \* ids of invitations
  Requests,              \* the requests, one operation each
  Founded,               \* the organizations that exist at first
  None

ASSUME AccountsAssumption ==
  /\ Founded \subseteq Orgs
  /\ None \notin Orgs \cup Subjects \cup Sessions \cup Invites

VARIABLES
  orgs,                  \* orgs[o]: nanotrace_organizations
  members,               \* members[o][u]: the role in nanotrace_organization_members
  sessions,              \* sessions[s]: whose, and the active organization
  invites,               \* nanotrace_organization_invitations
  req,                   \* what each request does and where it is
  admitted,              \* history: <<i, u>> for each acceptance, with its request
  lapsed                 \* history: organizations whose last admin accepted a lesser role

vars == <<orgs, members, sessions, invites, req, admitted, lapsed>>

Roles == {"viewer", "admin"}
Steps == {"idle", "done", "lock", "write", "mark", "close", "set", "resolve", "repair",
          "choose", "found", "open", "read", "insert", "admit"}

Session == [who : Subjects \cup {None}, active : Orgs \cup {None}]
Invite == [org : Orgs \cup {None}, who : Subjects \cup {None}, role : Roles,
           status : {"none", "pending", "accepted", "revoked"}, expired : BOOLEAN]

\* A request: its step, its session, and what it works on; seen is what an earlier
\* statement returned that a later one uses.
Request == [step : Steps, sess : Sessions \cup {None}, org : Orgs \cup {None},
            who : Subjects \cup {None}, role : Roles \cup {"none"},
            inv : Invites \cup {None}, seen : SUBSET (Orgs \cup Sessions)]

Blank(step) == [step |-> step, sess |-> None, org |-> None, who |-> None,
                role |-> "none", inv |-> None, seen |-> {}]
NoSession == [who |-> None, active |-> None]
NoInvite == [org |-> None, who |-> None, role |-> "viewer", status |-> "none",
             expired |-> FALSE]

Admins(o) == {u \in Subjects : members[o][u] = "admin"}
Member(o, u) == members[o][u] # "none"

\* memberships_for_subject: archived organizations are left out.
Memberships(u) == {o \in Orgs : orgs[o] = "live" /\ Member(o, u)}

\* is_organization_admin, which the handlers ask of the session's subject.
IsAdmin(s, o) == orgs[o] = "live" /\ sessions[s].who \in Admins(o)

\* Pending invitations of o for u; the unique index allows one, expired or not.
Pending(o, u) ==
  {i \in Invites : invites[i].status = "pending" /\ invites[i].org = o /\ invites[i].who = u}

----------------------------------------------------------------------------
(* Row locks, by the request that holds them. *)

MembersLocked(o) == \E q \in Requests : req[q].step = "write" /\ req[q].org = o
OrgLocked(o) == \E q \in Requests : req[q].step = "close" /\ req[q].org = o
InviteLocked(i) == \E q \in Requests : req[q].step = "admit" /\ req[q].inv = i
SessionLocked(s) ==
  \E q \in Requests : \/ req[q].step \in {"set", "admit"} /\ req[q].sess = s
                      \/ req[q].step = "close" /\ s \in req[q].seen

\* A settled state: every organization has an admin, nobody has a request under way, a
\* session's active organization is one of its subject's.  Invitations may wait.
Init ==
  /\ orgs = [o \in Orgs |-> IF o \in Founded THEN "live" ELSE "none"]
  /\ members \in [Orgs -> [Subjects -> Roles \cup {"none"}]]
  /\ \A o \in Orgs : IF o \in Founded THEN Admins(o) # {}
                     ELSE members[o] = [u \in Subjects |-> "none"]
  /\ sessions \in [Sessions -> Session]
  /\ \A s \in Sessions : sessions[s].active \in
       IF sessions[s].who = None \/ Memberships(sessions[s].who) = {} THEN {None}
       ELSE Memberships(sessions[s].who)
  /\ invites \in [Invites -> {NoInvite} \cup {invite \in Invite :
       invite.org \in Founded /\ invite.who # None /\ invite.status = "pending"
       /\ ~invite.expired}]
  /\ \A o \in Orgs, u \in Subjects : \A i, j \in Pending(o, u) : i = j
  /\ req = [r \in Requests |-> Blank("idle")]
  /\ admitted = {}
  /\ lapsed = {}

Begin(r, request) == req[r].step = "idle" /\ req' = [req EXCEPT ![r] = request]
Goto(r, step) == req' = [req EXCEPT ![r].step = step]
Finish(r) == req' = [req EXCEPT ![r] = Blank("done")]

SetActive(s, o) == sessions' = [sessions EXCEPT ![s].active = o]
Close(set) ==
  sessions' = [s \in Sessions |-> IF s \in set THEN [sessions[s] EXCEPT !.active = None]
                                  ELSE sessions[s]]

----------------------------------------------------------------------------
(* Members: set_organization_member_role, remove_organization_member (the  *)
(* role "none"), by an admin or, to leave, by the member.                  *)

StartMember(r, s, o, u, role) ==
  /\ sessions[s].who # None
  /\ IsAdmin(s, o) \/ (role = "none" /\ u = sessions[s].who)
  /\ Begin(r, [Blank("lock") EXCEPT !.org = o, !.who = u, !.role = role])
  /\ UNCHANGED <<orgs, members, sessions, invites, admitted, lapsed>>

\* The change is refused if it takes the last admin away.
TakesLastAdmin(q) == q.role # "admin" /\ Admins(q.org) = {q.who}

\* Mutant of LockMembers: the rows are read without FOR UPDATE.
ReadMembers(r) ==
  /\ req[r].step = "lock"
  /\ IF Member(req[r].org, req[r].who) /\ ~TakesLastAdmin(req[r])
     THEN Goto(r, "write") ELSE Finish(r)
  /\ UNCHANGED <<orgs, members, sessions, invites, admitted, lapsed>>

\* SELECT ... FOR UPDATE of the organization's rows, and the checks on them.
LockMembers(r) ==
  /\ req[r].step = "lock" /\ ~MembersLocked(req[r].org)
  /\ IF Member(req[r].org, req[r].who) /\ ~TakesLastAdmin(req[r])
     THEN Goto(r, "write") ELSE Finish(r)
  /\ UNCHANGED <<orgs, members, sessions, invites, admitted, lapsed>>

\* The row is updated, or it is deleted and the subject's sessions leave the organization.
WriteMember(r) ==
  LET q == req[r]
      inside == {s \in Sessions : sessions[s] = [who |-> q.who, active |-> q.org]} IN
  /\ q.step = "write"
  /\ members' = [members EXCEPT ![q.org][q.who] = q.role]
  /\ IF q.role = "none"
     THEN (\A s \in inside : ~SessionLocked(s)) /\ Close(inside)
     ELSE UNCHANGED sessions
  /\ Finish(r)
  /\ UNCHANGED <<orgs, invites, admitted, lapsed>>

----------------------------------------------------------------------------
(* archive_organization. *)

StartArchive(r, s, o) ==
  /\ IsAdmin(s, o)
  /\ Begin(r, [Blank("mark") EXCEPT !.org = o])
  /\ UNCHANGED <<orgs, members, sessions, invites, admitted, lapsed>>

\* The organization's row and the sessions it is active in are written.
MarkArchived(r) ==
  LET o == req[r].org
      inside == {s \in Sessions : sessions[s].active = o} IN
  /\ req[r].step = "mark" /\ ~OrgLocked(o)
  /\ IF orgs[o] = "live"
     THEN /\ \A s \in inside : ~SessionLocked(s)
          /\ req' = [req EXCEPT ![r].step = "close", ![r].seen = inside]
     ELSE Finish(r)
  /\ UNCHANGED <<orgs, members, sessions, invites, admitted, lapsed>>

\* Pending invitations are revoked and the transaction commits.
CloseOrganization(r) ==
  LET o == req[r].org
      open == {i \in Invites : invites[i].status = "pending" /\ invites[i].org = o} IN
  /\ req[r].step = "close" /\ \A i \in open : ~InviteLocked(i)
  /\ orgs' = [orgs EXCEPT ![o] = "archived"]
  /\ Close(req[r].seen)
  /\ invites' = [i \in Invites |-> IF i \in open THEN [invites[i] EXCEPT !.status = "revoked"]
                                   ELSE invites[i]]
  /\ Finish(r)
  /\ UNCHANGED <<members, admitted, lapsed>>

----------------------------------------------------------------------------
(* Sessions. *)

\* create_organization_for_session: one transaction, with the session's row locked.
CreateOrganization(r, s, o) ==
  /\ sessions[s].who # None /\ ~SessionLocked(s) /\ orgs[o] = "none"
  /\ Begin(r, Blank("done"))
  /\ orgs' = [orgs EXCEPT ![o] = "live"]
  /\ members' = [members EXCEPT ![o][sessions[s].who] = "admin"]
  /\ SetActive(s, o)
  /\ UNCHANGED <<invites, admitted, lapsed>>

\* switch_session_organization: the session's row is locked and the membership read...
StartSwitch(r, s, o) ==
  /\ sessions[s].who # None /\ ~SessionLocked(s) /\ o \in Memberships(sessions[s].who)
  /\ Begin(r, [Blank("set") EXCEPT !.sess = s, !.org = o])
  /\ UNCHANGED <<orgs, members, sessions, invites, admitted, lapsed>>

\* ...and the session written.
Switch(r) ==
  /\ req[r].step = "set"
  /\ SetActive(req[r].sess, req[r].org)
  /\ Finish(r)
  /\ UNCHANGED <<orgs, members, invites, admitted, lapsed>>

\* validate_session: the session is read...
Validate(r, s) ==
  /\ sessions[s].who # None /\ ~SessionLocked(s)
  /\ Begin(r, [Blank("resolve") EXCEPT !.sess = s, !.who = sessions[s].who,
                                       !.org = sessions[s].active])
  /\ UNCHANGED <<orgs, members, sessions, invites, admitted, lapsed>>

\* ...then the memberships, of which the first (whichever changed last) stands in for an
\* active organization that is not among them...
Resolve(r) ==
  LET mine == Memberships(req[r].who) IN
  /\ req[r].step = "resolve"
  /\ \/ req[r].org \in mine \cup {None} /\ (req[r].org = None => mine = {}) /\ Finish(r)
     \/ /\ req[r].org \notin mine
        /\ \E o \in IF mine = {} THEN {None} ELSE mine :
             o # req[r].org /\ req' = [req EXCEPT ![r].step = "repair", ![r].org = o]
  /\ UNCHANGED <<orgs, members, sessions, invites, admitted, lapsed>>

\* Mutant of Repair: the row is written back whole.
RepairWhole(r) ==
  /\ req[r].step = "repair" /\ ~SessionLocked(req[r].sess)
  /\ SetActive(req[r].sess, req[r].org)
  /\ Finish(r)
  /\ UNCHANGED <<orgs, members, invites, admitted, lapsed>>

\* ...and the session is written without another look at it.
Repair(r) ==
  /\ req[r].step = "repair" /\ ~SessionLocked(req[r].sess)
  /\ IF sessions[req[r].sess].who # None THEN SetActive(req[r].sess, req[r].org)
     ELSE UNCHANGED sessions
  /\ Finish(r)
  /\ UNCHANGED <<orgs, members, invites, admitted, lapsed>>

\* Logging out, or the session's expiry.
Logout(r, s) ==
  /\ sessions[s].who # None /\ ~SessionLocked(s)
  /\ Begin(r, Blank("done"))
  /\ sessions' = [sessions EXCEPT ![s] = NoSession]
  /\ UNCHANGED <<orgs, members, invites, admitted, lapsed>>

\* finish_login: the memberships are read...
StartLogin(r, u) ==
  /\ Begin(r, [Blank("choose") EXCEPT !.who = u, !.seen = Memberships(u)])
  /\ UNCHANGED <<orgs, members, sessions, invites, admitted, lapsed>>

\* ...then pending invitations and the previous session; the new session's organization
\* is the previous one or the first, none if invitations wait, or one to be founded.
Choose(r) ==
  LET q == req[r]
      waiting == {i \in Invites : /\ invites[i].status = "pending" /\ ~invites[i].expired
                                  /\ invites[i].who = q.who /\ orgs[invites[i].org] = "live"} IN
  /\ q.step = "choose"
  /\ \/ \E o \in q.seen : req' = [req EXCEPT ![r].step = "open", ![r].org = o, ![r].seen = {}]
     \/ q.seen = {} /\ Goto(r, IF waiting = {} THEN "found" ELSE "open")
  /\ UNCHANGED <<orgs, members, sessions, invites, admitted, lapsed>>

\* create_organization_for_subject: the personal organization of a first login.
FoundPersonal(r, o) ==
  /\ req[r].step = "found" /\ orgs[o] = "none"
  /\ orgs' = [orgs EXCEPT ![o] = "live"]
  /\ members' = [members EXCEPT ![o][req[r].who] = "admin"]
  /\ req' = [req EXCEPT ![r].step = "open", ![r].org = o]
  /\ UNCHANGED <<sessions, invites, admitted, lapsed>>

\* create_session.
OpenSession(r, s) ==
  /\ req[r].step = "open" /\ sessions[s] = NoSession
  /\ sessions' = [sessions EXCEPT ![s] = [who |-> req[r].who, active |-> req[r].org]]
  /\ Finish(r)
  /\ UNCHANGED <<orgs, members, invites, admitted, lapsed>>

----------------------------------------------------------------------------
(* Invitations. *)

Expire(i) ==
  /\ invites[i].status = "pending" /\ ~invites[i].expired
  /\ invites' = [invites EXCEPT ![i].expired = TRUE]
  /\ UNCHANGED <<orgs, members, sessions, req, admitted, lapsed>>

\* create_organization_invitation: expired invitations are revoked...
StartInvite(r, s, o, u, role) ==
  /\ IsAdmin(s, o)
  /\ \A i \in Invites : invites[i].expired => ~InviteLocked(i)
  /\ Begin(r, [Blank("read") EXCEPT !.org = o, !.who = u, !.role = role])
  /\ invites' = [i \in Invites |->
       IF invites[i].status = "pending" /\ invites[i].expired
       THEN [invites[i] EXCEPT !.status = "revoked"] ELSE invites[i]]
  /\ UNCHANGED <<orgs, members, sessions, admitted, lapsed>>

\* ...the organization and an invitation that waits are looked for...
ReadInvite(r) ==
  LET q == req[r] IN
  /\ q.step = "read"
  /\ IF orgs[q.org] = "live" /\ \A i \in Pending(q.org, q.who) : invites[i].expired
     THEN Goto(r, "insert") ELSE Finish(r)
  /\ UNCHANGED <<orgs, members, sessions, invites, admitted, lapsed>>

\* ...and the row is inserted, unless the unique index refuses it.
InsertInvite(r, i) ==
  LET q == req[r] IN
  /\ q.step = "insert" /\ invites[i] = NoInvite
  /\ \A j \in Pending(q.org, q.who) : ~InviteLocked(j)
  /\ invites' = IF Pending(q.org, q.who) # {} THEN invites
                ELSE [invites EXCEPT ![i] = [org |-> q.org, who |-> q.who, role |-> q.role,
                                             status |-> "pending", expired |-> FALSE]]
  /\ Finish(r)
  /\ UNCHANGED <<orgs, members, sessions, admitted, lapsed>>

\* resend_organization_invitation renews the expiry and the token; a request with the
\* token it replaced is refused like one with no token at all.
Resend(r, s, i) ==
  /\ invites[i].status = "pending" /\ ~invites[i].expired
  /\ IsAdmin(s, invites[i].org) /\ ~InviteLocked(i)
  /\ Begin(r, Blank("done"))
  /\ UNCHANGED <<orgs, members, sessions, invites, admitted, lapsed>>

\* revoke_organization_invitation.
Revoke(r, s, i) ==
  /\ invites[i].status \in {"pending", "revoked"}
  /\ IsAdmin(s, invites[i].org) /\ ~InviteLocked(i)
  /\ Begin(r, Blank("done"))
  /\ invites' = [invites EXCEPT ![i].status = "revoked"]
  /\ UNCHANGED <<orgs, members, sessions, admitted, lapsed>>

\* Mutant of Claim: a pending invitation is read, not updated.
ClaimRead(r, s, i) ==
  /\ sessions[s].who # None /\ ~SessionLocked(s)
  /\ invites[i].status = "pending" /\ ~invites[i].expired
  /\ invites[i].who = sessions[s].who /\ orgs[invites[i].org] = "live"
  /\ Begin(r, [Blank("admit") EXCEPT !.sess = s, !.inv = i, !.org = invites[i].org,
                                     !.who = sessions[s].who, !.role = invites[i].role])
  /\ UNCHANGED <<orgs, members, sessions, invites, admitted, lapsed>>

\* Mutant of Claim: the update's condition leaves out revoked_at.
ClaimRevoked(r, s, i) ==
  /\ sessions[s].who # None /\ ~SessionLocked(s) /\ ~InviteLocked(i)
  /\ invites[i].status \in {"pending", "revoked"} /\ ~invites[i].expired
  /\ invites[i].who = sessions[s].who /\ orgs[invites[i].org] = "live"
  /\ Begin(r, [Blank("admit") EXCEPT !.sess = s, !.inv = i, !.org = invites[i].org,
                                     !.who = sessions[s].who, !.role = invites[i].role])
  /\ UNCHANGED <<orgs, members, sessions, invites, admitted, lapsed>>

\* accept_organization_invitation: the session is locked and the invitation claimed...
Claim(r, s, i) ==
  /\ sessions[s].who # None /\ ~SessionLocked(s) /\ ~InviteLocked(i)
  /\ invites[i].status = "pending" /\ ~invites[i].expired
  /\ invites[i].who = sessions[s].who /\ orgs[invites[i].org] = "live"
  /\ Begin(r, [Blank("admit") EXCEPT !.sess = s, !.inv = i, !.org = invites[i].org,
                                     !.who = sessions[s].who, !.role = invites[i].role])
  /\ UNCHANGED <<orgs, members, sessions, invites, admitted, lapsed>>

\* ...the member's row is inserted or its role replaced, the session enters the
\* organization, and the transaction commits if the organization is not archived.
Admit(r) ==
  LET q == req[r]
      others == Admins(q.org) \ {q.who} IN
  /\ q.step = "admit"
  /\ ~(MembersLocked(q.org) /\ Member(q.org, q.who))
  /\ IF orgs[q.org] = "live"
     THEN /\ members' = [members EXCEPT ![q.org][q.who] = q.role]
          /\ invites' = [invites EXCEPT ![q.inv].status = "accepted"]
          /\ SetActive(q.sess, q.org)
          /\ admitted' = admitted \cup {<<r, q.inv, q.who>>}
          /\ lapsed' = IF others = {} /\ q.role = "viewer" THEN lapsed \cup {q.org}
                       ELSE lapsed
     ELSE UNCHANGED <<members, invites, sessions, admitted, lapsed>>
  /\ Finish(r)
  /\ UNCHANGED orgs

----------------------------------------------------------------------------

\* A statement fails, the client goes away or Postgres breaks a deadlock: the transaction
\* rolls back, what was committed before it stays.
Fail(r) ==
  /\ req[r].step \notin {"idle", "done"}
  /\ Finish(r)
  /\ UNCHANGED <<orgs, members, sessions, invites, admitted, lapsed>>

\* A request arrives.
Arrive(r) ==
  \/ \E s \in Sessions, o \in Orgs, u \in Subjects :
       \/ \E role \in Roles \cup {"none"} : StartMember(r, s, o, u, role)
       \/ \E role \in Roles : StartInvite(r, s, o, u, role)
  \/ \E s \in Sessions, o \in Orgs :
       StartArchive(r, s, o) \/ CreateOrganization(r, s, o) \/ StartSwitch(r, s, o)
  \/ \E s \in Sessions, i \in Invites : Resend(r, s, i) \/ Revoke(r, s, i) \/ Claim(r, s, i)
  \/ \E s \in Sessions : Validate(r, s) \/ Logout(r, s)
  \/ \E u \in Subjects : StartLogin(r, u)

\* A request goes on.
Step(r) ==
  \/ LockMembers(r) \/ WriteMember(r)
  \/ MarkArchived(r) \/ CloseOrganization(r)
  \/ Switch(r) \/ Resolve(r) \/ Repair(r) \/ Choose(r)
  \/ \E o \in Orgs : FoundPersonal(r, o)
  \/ \E s \in Sessions : OpenSession(r, s)
  \/ ReadInvite(r) \/ Admit(r)
  \/ \E i \in Invites : InsertInvite(r, i)

Next ==
  \/ \E r \in Requests : Arrive(r) \/ Step(r) \/ Fail(r)
  \/ \E i \in Invites : Expire(i)

Spec == Init /\ [][Next]_vars

----------------------------------------------------------------------------
(* Properties. *)

\* Types; a session row that is not there holds nothing, a pending invitation is complete.
TypeOK ==
  /\ orgs \in [Orgs -> {"none", "live", "archived"}]
  /\ members \in [Orgs -> [Subjects -> Roles \cup {"none"}]]
  /\ sessions \in [Sessions -> Session]
  /\ \A s \in Sessions : sessions[s].who = None => sessions[s] = NoSession
  /\ invites \in [Invites -> Invite]
  /\ \A i \in Invites : invites[i].status = "pending" => None \notin {invites[i].org, invites[i].who}
  /\ req \in [Requests -> Request]
  /\ admitted \subseteq Requests \X Invites \X Subjects
  /\ lapsed \subseteq Orgs

\* However changes of members run beside each other (set_organization_member_role,
\* remove_organization_member, with FOR UPDATE), an organization keeps an admin, unless
\* its last admin has accepted an invitation to a lesser role.
AdminsRemain == \A o \in Orgs : orgs[o] # "none" /\ o \notin lapsed => Admins(o) # {}

\* An invitation admits once, and the subject it names (accept_organization_invitation
\* claims it by a conditional update, whose row lock lasts until the commit).
InvitationsAdmitOnce ==
  \A a, b \in admitted : /\ a[2] = b[2] => a = b
                         /\ invites[a[2]].status = "accepted" /\ invites[a[2]].who = a[3]

\* An acceptance takes effect only for an invitation nobody has revoked, of an
\* organization that is not archived, though both are checked statements earlier.
AcceptanceIsTimely ==
  [][\A i \in Invites : invites'[i].status = "accepted" /\ invites[i].status # "accepted"
       => invites[i].status = "pending" /\ orgs[invites[i].org] = "live"]_vars

\* The error of crates/auth/src/lib.rs:1002, "organization must have at least one admin".
\* An admin who accepts an invitation as a viewer is the last one no more.
OrganizationsHaveAnAdmin == \A o \in Orgs : orgs[o] = "live" => Admins(o) # {}
=============================================================================
