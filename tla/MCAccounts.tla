------------------------------ MODULE MCAccounts ------------------------------
(***************************************************************************)
(* The parts of module Accounts share nothing but the accounts and the     *)
(* sessions.  A behaviour exercises one of them, chosen at the start.  One *)
(* about registrations has a third user, and no account changes once it    *)
(* exists; the others have every change of two accounts.                   *)
(***************************************************************************)
EXTENDS Accounts, TLC

CONSTANTS MaxId,       \* registrations in a behaviour
          MaxCount,    \* downloads of an unlimited link
          Registrant   \* a user that only registrations are about

VARIABLE part

Parts == [login    |-> {"login"},
          register |-> {"register", "list", "approve", "reject"},
          pair     |-> {"code", "pair"},
          share    |-> {"share", "revoke", "download"}]

MCInit == /\ Init
          /\ part \in DOMAIN Parts
          /\ account[Registrant] = None
          /\ part = "register" =>
                \A u \in User : account[u] # None => account[u].active

MCNext ==
    /\ Next
    /\ \A c \in Client : job'[c].op \in Parts[part] \cup {"none"}
    /\ lastId' <= MaxId
    /\ \A s \in Share : share'[s].count <= MaxCount
    /\ part = "register" =>
          \A u \in User : account[u] # None => account'[u] = account[u]
    /\ part # "register" => /\ account'[Registrant] = None
                            /\ \A c \in Client : job'[c].user # Registrant
    /\ UNCHANGED part

MCSpec == MCInit /\ [][MCNext]_<<vars, part>>

Symmetry ==
    Permutations(Client) \cup Permutations(User \ {Registrant}) \cup Permutations(Code)
    \cup Permutations(Share)

=============================================================================
