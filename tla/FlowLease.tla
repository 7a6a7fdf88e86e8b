------------------------------- MODULE FlowLease -------------------------------
(***************************************************************************)
(* What a Flow promises its workers, with everything else left out: a      *)
(* lease is a token nobody held before, it carries the next fencing        *)
(* number, at most one token is current, and a token that stopped being    *)
(* current never becomes current again.  FlowLifecycle implements it.      *)
(***************************************************************************)
EXTENDS Integers

CONSTANTS Tokens,   \* lease credentials, records with a field "fencing"
          NoToken   \* what the record holds while nobody has a lease

VARIABLES holder,   \* the current credential, or NoToken
          fence,    \* the last fencing number given out
          used      \* every credential granted since the Flow was created

leaseVars == <<holder, fence, used>>

LeaseInit == holder = NoToken /\ fence = 0 /\ used = {}

\* A claim, a reclaim, or a step that renews the worker's own credential.
Grant ==
    /\ holder' \in Tokens
    /\ holder' \notin used
    /\ holder'.fencing = fence + 1
    /\ fence' = fence + 1
    /\ used' = used \cup {holder'}

\* The lease ends; the number stays, so the old credential is still "the last".
Release ==
    /\ holder # NoToken
    /\ holder' = NoToken
    /\ UNCHANGED <<fence, used>>

\* A rewind of an unleased Flow outdates every credential ever granted.
Outdate ==
    /\ holder = NoToken
    /\ fence' = fence + 1
    /\ UNCHANGED <<holder, used>>

\* Retention deletes the Flow; a Flow of the same name starts from nothing.
Forget ==
    /\ holder = NoToken
    /\ fence' = 0
    /\ used' = {}
    /\ UNCHANGED holder

LeaseNext == Grant \/ Release \/ Outdate \/ Forget

LeaseSpec == LeaseInit /\ [][LeaseNext]_leaseVars
================================================================================
