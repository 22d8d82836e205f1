------------------------------ MODULE Accounts ------------------------------
(***************************************************************************)
(* Who signs in as whom (lib/auth): a host signs in with an email address  *)
(* that was entered for the household, a guest claims the party of a       *)
(* private link.  A unique index keeps an account to one host.  Deleting   *)
(* an account empties every column that names it.                          *)
(***************************************************************************)
EXTENDS Naturals

CONSTANTS
    User,       \* accounts of the identity provider
    Host,
    Email,      \* addresses in host_identity_claims
    HostOf,     \* [Email -> Host]
    Guests      \* parties

VARIABLES
    linked,     \* the parties whose private link opens now
    hostUser,   \* hosts.auth_user_id
    claimUser,  \* host_identity_claims.auth_user_id
    partyUser   \* parties.auth_user_id

accountVars == <<linked, hostUser, claimUser, partyUser>>

ASSUME AccountsAssumption == HostOf \in [Email -> Host]

NoUser == "nobody"

AccountTypeOK ==
    /\ linked \subseteq Guests
    /\ hostUser \in [Host -> User \cup {NoUser}]
    /\ claimUser \in [Email -> User \cup {NoUser}]
    /\ partyUser \in [Guests -> User \cup {NoUser}]

AccountInit ==
    /\ linked = {}
    /\ hostUser = [h \in Host |-> NoUser]
    /\ claimUser = [e \in Email |-> NoUser]
    /\ partyUser = [p \in Guests |-> NoUser]

FreeFor(holder, u) == holder \in {NoUser, u}

\* An invitation is captured or its link issued again; it expires or is withdrawn.
LinkChanges(p) ==
    /\ linked' = IF p \in linked THEN linked \ {p} ELSE linked \cup {p}
    /\ UNCHANGED <<hostUser, claimUser, partyUser>>

\* A user who is a host already signs in as that host and claims nothing.
IsHost(u) == \E h \in Host : hostUser[h] = u

\* Mutant: the host's account is overwritten.
ClaimHostOfEmail(u, e) ==
    /\ ~IsHost(u)
    /\ FreeFor(claimUser[e], u)
    /\ hostUser' = [hostUser EXCEPT ![HostOf[e]] = u]
    /\ claimUser' = [claimUser EXCEPT ![e] = u]
    /\ UNCHANGED <<linked, partyUser>>

ClaimHostIdentity(u, e) ==
    /\ ~IsHost(u)
    /\ FreeFor(claimUser[e], u)
    /\ FreeFor(hostUser[HostOf[e]], u)
    /\ hostUser' = [hostUser EXCEPT ![HostOf[e]] = u]
    /\ claimUser' = [claimUser EXCEPT ![e] = u]
    /\ UNCHANGED <<linked, partyUser>>

ClaimPartyForUser(u, p) ==
    /\ p \in linked
    /\ FreeFor(partyUser[p], u)
    /\ partyUser' = [partyUser EXCEPT ![p] = u]
    /\ UNCHANGED <<linked, hostUser, claimUser>>

\* on delete set null
Emptied(column, u) == [k \in DOMAIN column |-> IF column[k] = u THEN NoUser ELSE column[k]]

DeleteAccount(u) ==
    /\ hostUser' = Emptied(hostUser, u)
    /\ claimUser' = Emptied(claimUser, u)
    /\ partyUser' = Emptied(partyUser, u)
    /\ UNCHANGED linked

AccountNext ==
    \/ \E p \in Guests : LinkChanges(p)
    \/ \E u \in User :
          \/ \E e \in Email : ClaimHostIdentity(u, e)
          \/ \E p \in Guests : ClaimPartyForUser(u, p)
          \/ DeleteAccount(u)

AccountSpec == AccountInit /\ [][AccountNext]_accountVars

-----------------------------------------------------------------------------
\* An address and its host never name different accounts, though a host may have several
\* addresses and accounts come and go (host-identity.ts:16-61).
ClaimsNameTheHostsAccount ==
    \A e \in Email : claimUser[e] # NoUser => hostUser[HostOf[e]] = claimUser[e]
=============================================================================
