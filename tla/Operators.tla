----------------------------- MODULE Operators ------------------------------
(***************************************************************************)
(* Operators of one tenant: the links they sign in with (auth.service.ts), *)
(* their sessions, their roles (members.service.ts), and the guards in      *)
(* front of the back office (auth.guard.ts, roles.guard.ts).                *)
(*                                                                         *)
(* A session is a signed token that nobody can take back; what a member may *)
(* do is read from the membership on every request.  Each request runs in   *)
(* steps, one for each time it waits for the database.                      *)
(***************************************************************************)
EXTENDS Clock, FiniteSets

CONSTANTS
    Users,
    Links,           \* login tokens, all different
    NoLink,
    Desk,            \* requests that may be in flight at once
    LinkLife,        \* LOGIN_TOKEN_TTL_MS
    SessionLife,     \* SESSION_TTL
    GuestLife,       \* the two hours of an impersonation
    Assignable       \* ASSIGNABLE_ROLES

ASSUME OperatorsAssumption ==
    /\ IsFiniteSet(Desk)
    /\ NoLink \notin Links
    /\ LinkLife \in Nat \ {0} /\ SessionLife \in Nat /\ GuestLife \in Nat
    /\ Assignable \subseteq {"TENANT_OWNER", "TENANT_EDITOR", "TENANT_ORDERS"}

VARIABLES
    role,        \* TenantMembership of each user, "none" without one
    link,        \* loginToken of each user
    linkEnd,     \* loginTokenExpiresAt
    issued,      \* links stored so far
    mailed,      \* links that reached their operator
    session,     \* the instant the longest session of each user ends
    desk,        \* what each request holds between its steps
    uses,        \* history: sessions made from each link
    crossed,     \* history: a change was written between another's check and write
    after        \* history: changes a user made since losing ownership

operatorVars == <<role, link, linkEnd, issued, mailed, session, desk, uses, crossed, after>>

Roles   == {"TENANT_ORDERS", "TENANT_EDITOR", "TENANT_OWNER"}
Member(u) == role[u] # "none"
Owners  == {u \in Users : role[u] = "TENANT_OWNER"}

Idle     == [pc |-> "idle"]
LinkAsk  == [pc : {"asked", "stored", "verifying"}, user : Users, link : Links \cup {NoLink}]
TeamAsk  == [pc : {"admitted", "counting", "checked"}, by : Users, op : {"add", "update", "remove"},
             user : Users, role : Roles \cup {"none"}, drops : BOOLEAN]

OperatorsTypeOK ==
    /\ ClockTypeOK
    /\ role \in [Users -> Roles \cup {"none"}]
    /\ link \in [Users -> Links \cup {NoLink}]
    /\ linkEnd \in [Users -> Nat]
    /\ \A u \in Users : linkEnd[u] <= now + LinkLife
    /\ mailed \subseteq issued /\ issued \subseteq Links
    /\ session \in [Users -> Nat]
    /\ desk \in [Desk -> {Idle} \cup LinkAsk \cup TeamAsk]
    /\ \A h \in Desk : desk[h].pc \in {"stored", "verifying"} => desk[h].link \in issued
    /\ uses \in [Links -> Nat]
    /\ crossed \in BOOLEAN
    /\ after \in [Users -> Nat]

\* A tenant has the owner its creation gave it, perhaps others added since, and
\* one of them signed in.
OperatorsInit ==
    /\ role \in [Users -> {"TENANT_OWNER", "none"}]
    /\ \E o \in Owners : session = [u \in Users |-> IF u = o THEN SessionLife ELSE 0]
    /\ link = [u \in Users |-> NoLink]
    /\ linkEnd = [u \in Users |-> 0]
    /\ issued = {}
    /\ mailed = {}
    /\ desk = [h \in Desk |-> Idle]
    /\ uses = [k \in Links |-> 0]
    /\ crossed = FALSE
    /\ after = [u \in Users |-> 0]

Goes(h, record) == desk' = [desk EXCEPT ![h] = record]

-----------------------------------------------------------------------------
(***************************************************************************)
(* Signing in.                                                             *)
(***************************************************************************)

\* Only somebody with a membership is sent a link.
RequestMagicLink(h, u) ==
    /\ Arrives
    /\ desk[h] = Idle
    /\ Member(u)
    /\ Goes(h, [pc |-> "asked", user |-> u, link |-> NoLink])
    /\ UNCHANGED <<role, link, linkEnd, issued, mailed, session, uses, crossed, after>>

LinkEnd == now + LinkLife

\* A new token takes the place of the one before.
StoreLink(h, k) ==
    LET u == desk[h].user IN
    /\ GoesOn
    /\ desk[h].pc = "asked"
    /\ k \notin issued
    /\ issued' = issued \cup {k}
    /\ link' = [link EXCEPT ![u] = k]
    /\ linkEnd' = [linkEnd EXCEPT ![u] = LinkEnd]
    /\ Goes(h, [pc |-> "stored", user |-> u, link |-> k])
    /\ UNCHANGED <<role, mailed, session, uses, crossed, after>>

\* The e-mail goes out, or fails and leaves the stored token behind.
SendLink(h) ==
    /\ GoesOn
    /\ desk[h].pc = "stored"
    /\ mailed' \in {mailed, mailed \cup {desk[h].link}}
    /\ Goes(h, Idle)
    /\ UNCHANGED <<role, link, linkEnd, issued, session, uses, crossed, after>>

\* The user row this link finds.
Finds(u, k) == link[u] = k /\ linkEnd[u] > now

PresentLink(h, u, k) ==
    /\ Arrives
    /\ desk[h] = Idle
    /\ k \in mailed
    /\ Finds(u, k)
    /\ Goes(h, [pc |-> "verifying", user |-> u, link |-> k])
    /\ UNCHANGED <<role, link, linkEnd, issued, mailed, session, uses, crossed, after>>

\* The token is cleared by the user's id, whichever token is there by now, and
\* a session is signed.
ConsumeLink(h) ==
    LET u == desk[h].user IN
    /\ GoesOn
    /\ desk[h].pc = "verifying"
    /\ link' = [link EXCEPT ![u] = NoLink]
    /\ session' = [session EXCEPT ![u] = now + SessionLife]
    /\ uses' = [uses EXCEPT ![desk[h].link] = @ + 1]
    /\ Goes(h, Idle)
    /\ UNCHANGED <<role, linkEnd, issued, mailed, crossed, after>>

\* The platform's owner gets a session of one of the tenant's owners.
Impersonate(u) ==
    /\ Arrives
    /\ u \in Owners
    /\ session' = [session EXCEPT ![u] = IF @ > now + GuestLife THEN @ ELSE now + GuestLife]
    /\ UNCHANGED <<role, link, linkEnd, issued, mailed, desk, uses, crossed, after>>

-----------------------------------------------------------------------------
(***************************************************************************)
(* The guards and the members of the tenant.                               *)
(***************************************************************************)

Rank(r) ==
    CASE r = "TENANT_OWNER" -> 2
      [] r \in {"TENANT_EDITOR", "TENANT_ORDERS"} -> 1
      [] r = "none" -> 0

\* Mutant: whoever signed in as a member is believed.
SessionOnly(u, needed) == session[u] > now

\* AuthGuard, then RolesGuard: a session that has not ended, and a membership
\* of the rank, read now.
Passes(u, needed) == session[u] > now /\ Rank(role[u]) >= Rank(needed)

\* A change of the team passes the guards.
Admit(h, a, op, u, r) ==
    /\ Arrives
    /\ desk[h] = Idle
    /\ Passes(a, "TENANT_OWNER")
    /\ IF op = "remove" THEN r = "none" ELSE r \in Assignable
    /\ Goes(h, [pc |-> "admitted", by |-> a, op |-> op, user |-> u, role |-> r, drops |-> FALSE])
    /\ UNCHANGED <<role, link, linkEnd, issued, mailed, session, uses, crossed, after>>

\* Would this request take ownership from somebody who has it?
TakesOwnership(d) == role[d.user] = "TENANT_OWNER" /\ d.role # "TENANT_OWNER"

\* The membership is read: add needs that there is none, the others that there
\* is one, and the loss of an owner has to be counted.
Ensure(h) ==
    LET d == desk[h] IN
    /\ GoesOn
    /\ d.pc = "admitted"
    /\ Goes(h, IF (d.op = "add") = Member(d.user)
               THEN Idle
               ELSE [d EXCEPT !.pc = IF TakesOwnership(d) THEN "counting" ELSE "checked"])
    /\ UNCHANGED <<role, link, linkEnd, issued, mailed, session, uses, crossed, after>>

\* Mutant: the owner in question is counted too.
AllOwners(u) == Owners

OtherOwners(u) == Owners \ {u}

\* assertNotLastOwner.
CountOwners(h) ==
    LET d == desk[h] IN
    /\ GoesOn
    /\ d.pc = "counting"
    /\ Goes(h, IF OtherOwners(d.user) = {} THEN Idle
               ELSE [d EXCEPT !.pc = "checked", !.drops = TRUE])
    /\ UNCHANGED <<role, link, linkEnd, issued, mailed, session, uses, crossed, after>>

\* The write, by user and tenant: it fails when the row came or went meanwhile.
ChangeMember(h) ==
    LET d == desk[h] IN
    /\ GoesOn
    /\ d.pc = "checked"
    /\ Goes(h, Idle)
    /\ IF (d.op = "add") = Member(d.user)
       THEN UNCHANGED <<role, crossed, after>>
       ELSE /\ role' = [role EXCEPT ![d.user] = d.role]
            /\ crossed' = (crossed \/ \E g \in Desk \ {h} : desk[g].pc \in {"counting", "checked"})
            /\ after' = [u \in Users |->
                  CASE role'[u] = "TENANT_OWNER" -> 0
                    [] u = d.by /\ role'[u] # "TENANT_OWNER" -> after[u] + 1
                    [] OTHER -> after[u]]
    /\ UNCHANGED <<link, linkEnd, issued, mailed, session, uses>>

\* The process restarts: whatever was in flight is gone.
DeskStops ==
    /\ desk' = [h \in Desk |-> Idle]
    /\ UNCHANGED <<role, link, linkEnd, issued, mailed, session, uses, crossed, after>>

OperatorsStep ==
    \/ \E h \in Desk :
          \/ \E u \in Users : RequestMagicLink(h, u)
          \/ \E k \in Links : StoreLink(h, k)
          \/ SendLink(h)
          \/ \E u \in Users, k \in Links : PresentLink(h, u, k)
          \/ ConsumeLink(h)
          \/ \E a \in Users, op \in {"add", "update", "remove"}, u \in Users, r \in Roles \cup {"none"} :
                Admit(h, a, op, u, r)
          \/ Ensure(h)
          \/ CountOwners(h)
          \/ ChangeMember(h)
    \/ \E u \in Users : Impersonate(u)

\* The other parts of the process answer requests, and time passes, on their own.
OperatorsNext ==
    \/ OperatorsStep
    \/ Arrives /\ DeskStops
    \/ (Arrives \/ Tick) /\ UNCHANGED operatorVars

OperatorsSpec == OperatorsInit /\ ClockInit /\ [][OperatorsNext]_<<operatorVars, clockVars>>

-----------------------------------------------------------------------------
\* "protege que no quede el tenant sin ningún TENANT_OWNER" (members.service.ts):
\* any sequence of demotions and removals keeps an owner, unless one of them is
\* written after another was checked and before that is written.
OwnerRemains == Owners # {} \/ crossed

\* Requests of user u past the guards.
InFlight(d, u) == d.pc \in {"admitted", "counting", "checked"} /\ d.by = u
By(u) == {h \in Desk : InFlight(desk[h], u)}

\* A session outlives the membership, but the guard reads the role
\* (roles.guard.ts): after losing ownership a user changes the team only through
\* requests that were already in flight, so those made since and those still there
\* are no more than may be in flight at once.
AccessEndsWithRole ==
    \A u \in Users : role[u] # "TENANT_OWNER" =>
        after[u] + Cardinality(By(u)) <= Cardinality(Desk)

\* "un enlace solo sirve una vez" (auth.service.ts:77): whichever requests present it,
\* a login link opens one session.
LinkOpensOnce == \A k \in Links : uses[k] <= 1
=============================================================================
