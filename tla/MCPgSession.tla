---------------------------- MODULE MCPgSession ----------------------------
(* One connection's protocol state, for TLC: its transaction status        *)
(* (PgTxState) and its prepared statements (PgExtended).  Neither module    *)
(* reads the other's state but for what its own choices already allow, so   *)
(* a behaviour follows one of the two.                                      *)
EXTENDS MCPgTxState, MCPgExtended

VARIABLE followed

SessionInit ==
    /\ followed \in {"transaction", "statements"}
    /\ Init
    /\ followed = "statements" => client = CHOOSE c \in Clients : TRUE
    /\ ExtInit

\* A connection that has ended stays as it is: no deadlock.
ConnectionOver ==
    followed = "statements" /\ ended # "no" /\ UNCHANGED <<vars, extVars, followed>>

SessionNext ==
    \/ followed = "transaction" /\ Next /\ UNCHANGED <<extVars, followed>>
    \/ followed = "statements" /\ ExtNext /\ UNCHANGED <<vars, followed>>
    \/ ConnectionOver

SessionSpec == SessionInit /\ [][SessionNext]_<<vars, extVars, followed>>

\* The state of both is well-typed.
SessionTypeOK == TypeOK /\ ExtTypeOK
=============================================================================
