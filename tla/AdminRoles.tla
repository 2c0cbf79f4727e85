------------------------------ MODULE AdminRoles ------------------------------
(***************************************************************************)
(* Granting and revoking of administrator roles (AdminRoleManagement-      *)
(* Service) by several handlers at once, one SQL statement per step.       *)
(*                                                                         *)
(* The actor's roles are read in a transaction of their own (load_actor),  *)
(* before the transaction of the command; that one runs at READ COMMITTED  *)
(* and locks nothing it reads.  A DELETE or an INSERT locks its row until  *)
(* the commit.                                                             *)
(***************************************************************************)
EXTENDS Naturals, FiniteSets

CONSTANTS
    Admins,             \* users who may be given a role
    CommandHandlers,    \* handlers of commands running at once
    NoOne               \* not a user

ASSUME AdminsAssumption == IsFiniteSet(Admins) /\ NoOne \notin Admins

VARIABLES
    assigned,   \* role_assignments: pairs of a user and a role
    at,         \* the next statement of a handler
    actor,      \* the user whose command it handles
    manages,    \* the Actor that load_actor returned can MANAGE_ADMIN_ROLES
    pair,       \* the user and the role of the command
    gone,       \* somebody else deleted the row this handler has found
    overlapped  \* history: two revocations of owner have run at once

roleVars == <<assigned, at, actor, manages, pair, gone, overlapped>>

Roles == {"owner", "manager"}

\* What /grant_role and /revoke_role may name.
Pairs == Admins \X Roles
NoPair == <<NoOne, "manager">>
Owners(rows) == {a \in Admins : <<a, "owner">> \in rows}

InRevocation == {"count", "find", "delete", "deleted"}
RoleSteps == {"idle", "loaded", "look", "insert", "inserted"} \union InRevocation

RevokesOwner(h) == at[h] \in InRevocation /\ pair[h][2] = "owner"

\* Uncommitted changes: the row of p is locked by h.
Locks(h, p) ==
    /\ pair[h] = p
    /\ at[h] = "inserted" \/ (at[h] = "deleted" /\ ~gone[h])

LockedByOther(h) == \E g \in CommandHandlers \ {h} : Locks(g, pair[h])

\* The variables of a handler are gone with it.
Forget(h) ==
    /\ actor' = [actor EXCEPT ![h] = NoOne]
    /\ manages' = [manages EXCEPT ![h] = FALSE]
    /\ pair' = [pair EXCEPT ![h] = NoPair]

\* The handler ends: it has answered, or its transaction was rolled back.
EndCommand(h) ==
    /\ at' = [at EXCEPT ![h] = "idle"]
    /\ Forget(h)
    /\ gone' = [gone EXCEPT ![h] = FALSE]

Proceed(h, step) ==
    /\ at' = [at EXCEPT ![h] = step]
    /\ UNCHANGED <<assigned, actor, manages, pair, gone, overlapped>>

Answer(h) == EndCommand(h) /\ UNCHANGED <<assigned, overlapped>>

------------------------------------------------------------------------------

\* load_actor of _handle_admin_command
LoadActor(h, a) ==
    /\ at[h] = "idle"
    /\ at' = [at EXCEPT ![h] = "loaded"]
    /\ actor' = [actor EXCEPT ![h] = a]
    /\ manages' = [manages EXCEPT ![h] = a \in Owners(assigned)]
    /\ UNCHANGED <<assigned, pair, gone, overlapped>>

\* require(actor, MANAGE_ADMIN_ROLES) at the head of both operations, and the
\* test revoke_role makes before its first query
Deny(h) ==
    /\ at[h] = "loaded"
    /\ Answer(h)

StartAssign(h, p) ==
    /\ at[h] = "loaded"
    /\ manages[h]
    /\ at' = [at EXCEPT ![h] = "look"]
    /\ pair' = [pair EXCEPT ![h] = p]
    /\ UNCHANGED <<assigned, actor, manages, gone, overlapped>>

StartRevoke(h, p) ==
    /\ at[h] = "loaded"
    /\ manages[h]
    /\ p # <<actor[h], "owner">>
    /\ at' = [at EXCEPT ![h] = IF p[2] = "owner" THEN "count" ELSE "find"]
    /\ pair' = [pair EXCEPT ![h] = p]
    /\ overlapped' = (overlapped \/ \E g \in CommandHandlers \ {h} :
                                        RevokesOwner(g) /\ p[2] = "owner")
    /\ UNCHANGED <<assigned, actor, manages, gone>>

\* assign_role: the role is already assigned, or the row is inserted
LookForAssignment(h) ==
    /\ at[h] = "look"
    /\ IF pair[h] \in assigned THEN Answer(h) ELSE Proceed(h, "insert")

\* The unique key of role_assignments makes the second of two inserts wait and
\* then fail with an IntegrityError.
InsertAssignment(h) ==
    /\ at[h] = "insert"
    /\ ~LockedByOther(h)
    /\ IF pair[h] \in assigned THEN Answer(h) ELSE Proceed(h, "inserted")

CommitAssign(h) ==
    /\ at[h] = "inserted"
    /\ assigned' = assigned \union {pair[h]}
    /\ EndCommand(h)
    /\ UNCHANGED overlapped

\* Mutation of EnoughOwners: off by one.
AnyOwner(rows) == Cardinality(Owners(rows)) > 0

\* count_users_with_role(owner) and the comparison that follows it
EnoughOwners(rows) == Cardinality(Owners(rows)) > 1

CountOwners(h) ==
    /\ at[h] = "count"
    /\ IF EnoughOwners(assigned) THEN Proceed(h, "find") ELSE Answer(h)

\* revoke_role of the repository: nothing to revoke, or the row is deleted
FindAssignment(h) ==
    /\ at[h] = "find"
    /\ IF pair[h] \in assigned THEN Proceed(h, "delete") ELSE Answer(h)

\* The DELETE names the row by its id.  If it was deleted meanwhile, nothing is
\* deleted, and the operation goes on as if it were.
DeleteAssignment(h) ==
    /\ at[h] = "delete"
    /\ ~LockedByOther(h)
    /\ Proceed(h, "deleted")

CommitRevoke(h) ==
    /\ at[h] = "deleted"
    /\ assigned' = IF gone[h] THEN assigned ELSE assigned \ {pair[h]}
    /\ at' = [at EXCEPT ![h] = "idle"]
    /\ gone' = [g \in CommandHandlers |->
                    IF g = h THEN FALSE
                    ELSE gone[g] \/ (~gone[h] /\ at[g] = "delete"
                                                /\ pair[g] = pair[h])]
    /\ Forget(h)
    /\ UNCHANGED overlapped

\* The connection is lost or the bot stops before the commit.
Rollback(h) ==
    /\ at[h] \notin {"idle", "loaded"}
    /\ Answer(h)

------------------------------------------------------------------------------

\* The first owner is put into the database by hand.
RolesInit ==
    /\ assigned \in {{<<a, "owner">> : a \in A} : A \in (SUBSET Admins) \ {{}}}
    /\ at = [h \in CommandHandlers |-> "idle"]
    /\ actor = [h \in CommandHandlers |-> NoOne]
    /\ manages = [h \in CommandHandlers |-> FALSE]
    /\ pair = [h \in CommandHandlers |-> NoPair]
    /\ gone = [h \in CommandHandlers |-> FALSE]
    /\ overlapped = FALSE

RolesNext ==
    \E h \in CommandHandlers :
        \/ \E a \in Admins : LoadActor(h, a)
        \/ Deny(h)
        \/ \E p \in Pairs : StartAssign(h, p) \/ StartRevoke(h, p)
        \/ LookForAssignment(h) \/ InsertAssignment(h) \/ CommitAssign(h)
        \/ CountOwners(h) \/ FindAssignment(h) \/ DeleteAssignment(h)
        \/ CommitRevoke(h)
        \/ Rollback(h)

RolesSpec == RolesInit /\ [][RolesNext]_roleVars

------------------------------------------------------------------------------

\* Only roles that exist are assigned, to users that exist, and a handler is
\* at one of its statements.
RolesTypeOK ==
    /\ assigned \subseteq Admins \X Roles
    /\ at \in [CommandHandlers -> RoleSteps]
    /\ actor \in [CommandHandlers -> Admins \union {NoOne}]
    /\ manages \in [CommandHandlers -> BOOLEAN]
    /\ pair \in [CommandHandlers -> (Admins \union {NoOne}) \X Roles]
    /\ gone \in [CommandHandlers -> BOOLEAN]
    /\ overlapped \in BOOLEAN

\* "At least one owner must remain in the system" (the message of revoke_role).
SomeOwner == Owners(assigned) # {}

\* The last owner is lost in no other way than by two revocations at once:
\* neither an actor who is no longer an owner when the command runs nor any
\* sequence of grants and revocations takes the last owner away.
OwnersLostOnlyByOverlap == overlapped \/ SomeOwner
==============================================================================
