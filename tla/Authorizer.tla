----------------------------- MODULE Authorizer -----------------------------
(***************************************************************************)
(* The authorizer program (architectures/decentralized/solana-authorizer)  *)
(* as join_run of the coordinator relies on it: a grantor authorizes a     *)
(* grantee, which names delegates.  An authorization is found by grantor,  *)
(* grantee and scope; here the grantor and the scope are those of the run. *)
(***************************************************************************)
EXTENDS Integers, Sequences

CONSTANTS
    Grantees, Anyone,  \* keys; Anyone is Pubkey::default
    Delegates,         \* keys that a grantee may add
    CloseDelay,        \* 30 days
    MaxClock,          \* bound on the time
    MaxDelegates       \* bound on the list of delegates

ASSUME AuthorizerAssumption == {CloseDelay, MaxClock, MaxDelegates} \subseteq Nat /\ MaxClock >= CloseDelay

VARIABLES
    authorization,  \* by grantee
    clock,          \* Clock::unix_timestamp
    revoked         \* by grantee: when its authorization was last active, 0 if never

authorizerVars == <<authorization, clock, revoked>>

Keys == Grantees \union {Anyone}

NoAuthorization == [open |-> FALSE, active |-> FALSE, delegates |-> <<>>, updated |-> 0]

Authorization == [open : BOOLEAN, active : BOOLEAN, delegates : Seq(Delegates),
                  updated : 0 .. MaxClock]

AuthorizerTypeOK ==
    /\ authorization \in [Keys -> Authorization]
    /\ \A g \in Keys : Len(authorization[g].delegates) <= MaxDelegates
    /\ clock \in 0 .. MaxClock
    /\ revoked \in [Keys -> 0 .. MaxClock]

AuthorizerInit ==
    /\ authorization = [g \in Keys |-> NoAuthorization]
    /\ clock = CloseDelay  \* long after 1970
    /\ revoked = [g \in Keys |-> 0]

AuthorizationCreate(g) ==
    /\ ~authorization[g].open
    /\ authorization' = [authorization EXCEPT ![g] = [NoAuthorization EXCEPT !.open = TRUE]]
    /\ revoked' = [revoked EXCEPT ![g] = 0]
    /\ UNCHANGED clock

\* Mutant of GrantorUpdated: the time is that of an activation.
GrantorUpdatedOnActivation(a, active) ==
    [a EXCEPT !.active = active, !.updated = IF active THEN clock ELSE @]

GrantorUpdated(a, active) ==
    [open |-> a.open, active |-> active, delegates |-> a.delegates, updated |-> clock]

\* authorization_grantor_update
AuthorizationGrantorUpdate(g, active) ==
    /\ authorization[g].open
    /\ authorization' = [authorization EXCEPT ![g] = GrantorUpdated(@, active)]
    /\ revoked' = [revoked EXCEPT ![g] = IF authorization[g].active THEN clock ELSE @]
    /\ UNCHANGED clock

GranteeUpdated(a, clear, added) ==
    [a EXCEPT !.delegates = (IF clear THEN <<>> ELSE @) \o added]

\* authorization_grantee_update, by the grantee
AuthorizationGranteeUpdate(g, clear, added) ==
    /\ g # Anyone /\ authorization[g].open
    /\ Len(GranteeUpdated(authorization[g], clear, added).delegates) <= MaxDelegates
    /\ authorization' = [authorization EXCEPT ![g] = GranteeUpdated(@, clear, added)]
    /\ UNCHANGED <<clock, revoked>>

\* authorization_close
AuthorizationClose(g) ==
    /\ authorization[g].open /\ ~authorization[g].active
    /\ \/ authorization[g].delegates = <<>>
       \/ clock >= authorization[g].updated + CloseDelay
    /\ authorization' = [authorization EXCEPT ![g] = NoAuthorization]
    /\ UNCHANGED <<clock, revoked>>

ClockTicks ==
    /\ clock < MaxClock
    /\ clock' = clock + 1
    /\ UNCHANGED <<authorization, revoked>>

AuthorizerNext ==
    \/ \E g \in Keys :
          \/ AuthorizationCreate(g) \/ AuthorizationClose(g)
          \/ \E active \in BOOLEAN : AuthorizationGrantorUpdate(g, active)
          \/ \E clear \in BOOLEAN, added \in {<<>>} \union {<<d>> : d \in Delegates} :
                AuthorizationGranteeUpdate(g, clear, added)
    \/ ClockTicks

AuthorizerSpec == AuthorizerInit /\ [][AuthorizerNext]_authorizerVars

-----------------------------------------------------------------------------
(* Properties. *)

\* The list of delegates of an authorization that was valid for someone is kept for
\* CloseDelay after it was last active, whatever the grantor updates in between.
DelegatesOutliveRevocation ==
    [][\A g \in Keys :
          authorization[g].open /\ ~authorization'[g].open /\ authorization[g].delegates # <<>>
             => clock >= revoked[g] + CloseDelay]_authorizerVars

\* An authorization stays well formed, and no update of the grantor, in whatever order
\* with the grantee's, takes the delegates away too early.
AuthorizerCorrect ==
    /\ []AuthorizerTypeOK
    /\ DelegatesOutliveRevocation
=============================================================================
