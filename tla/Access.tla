---- MODULE Access ----
(***************************************************************************)
(* Sessions and API tokens (internal/metadata/auth.go) and what they allow *)
(* (internal/authz): rows of the one database that all nodes share.  Each  *)
(* action is a transaction or, for Expire, time passing the expires_at a   *)
(* row may have.                                                           *)
(***************************************************************************)
EXTENDS Naturals

CONSTANTS
    Cred,       \* session ids and tokens
    User,
    Permission,
    TokenAdmin, \* the permission the token routes declare
    RolePermissions, \* the permissions of each user's role
    OrgOf,      \* the organisation of each user
    ProjectOrg, \* the organisation of the project requests are for
    NoRow       \* not issued yet

\* A role has permissions among those there are.
ASSUME AccessAssumption == RolePermissions \in [User -> SUBSET Permission]

VARIABLE rows \* the rows of sessions and api_tokens

Row == [kind: {"session", "token"}, user: User, permissions: SUBSET Permission,
        valid: BOOLEAN]

\* A row of the tables is not the absence of one.
ASSUME RowAssumption == NoRow \notin Row

AccessTypeOK == rows \in [Cred -> Row \cup {NoRow}]

AccessInit == rows = [c \in Cred |-> NoRow]

Issued == {c \in Cred : rows[c] # NoRow}

\* SessionUser and TokenByHash find neither revoked nor expired rows.
Found(c) == c \in Issued /\ rows[c].valid

\* NewAuthContext, and Restrict for a token that names permissions.
Perms(c) ==
    LET role == RolePermissions[rows[c].user]
    IN  IF rows[c].permissions = {} THEN role ELSE role \cap rows[c].permissions

\* Can and CanProject.
CanProject(c, p) == p \in Perms(c) /\ OrgOf[rows[c].user] = ProjectOrg

Insert(c, row) == c \notin Issued /\ rows' = [rows EXCEPT ![c] = row]
End(c) == rows' = [rows EXCEPT ![c].valid = FALSE]

\* handleLogin, once the password is right.
CreateSession(c, u) ==
    Insert(c, [kind |-> "session", user |-> u, permissions |-> {}, valid |-> TRUE])

CreateToken(c, u, ps) ==
    Insert(c, [kind |-> "token", user |-> u, permissions |-> ps, valid |-> TRUE])

\* handleLogout.
RevokeSession(c) ==
    /\ c \in Issued /\ rows[c].kind = "session"
    /\ End(c)

\* handleTokenRevoke by a user of organisation o.
RevokeToken(c, o) ==
    /\ c \in Issued /\ rows[c].kind = "token" /\ OrgOf[rows[c].user] = o
    /\ End(c)

\* Sessions always run out, tokens if they were given an expiry.
Expire(c) == c \in Issued /\ End(c)

AccessNext == \E c \in Cred :
    \/ \E u \in User : CreateSession(c, u)
    \/ \E u \in User :
          /\ TokenAdmin \in RolePermissions[u]
          /\ \/ \E ps \in SUBSET Permission : CreateToken(c, u, ps)
             \/ RevokeToken(c, OrgOf[u])
    \/ RevokeSession(c)
    \/ Expire(c)
====
