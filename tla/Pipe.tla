-------------------------------- MODULE Pipe --------------------------------
(***************************************************************************)
(* What a proxy promises for one connection: it passes on what the client  *)
(* has sent, then what the server has sent, each in order and without      *)
(* taking anything back, and then nothing more.  How far it gets is left   *)
(* open: either side may fail.                                             *)
(***************************************************************************)
EXTENDS SequencesExt

CONSTANT Alphabet   \* what is sent

VARIABLES
    in,         \* in[s]: what side s has sent
    out,        \* out[s]: what has been passed on of it
    turn        \* whose message is passed on: "client", "server", then "proxy"

vars == <<in, out, turn>>

Sides == {"client", "server"}
Empty == [s \in Sides |-> <<>>]

Init == in = Empty /\ out = Empty /\ turn = "client"

Send(s) == /\ \E t \in Alphabet : in' = [in EXCEPT ![s] = Append(@, t)]
           /\ UNCHANGED <<out, turn>>

\* The turn stays, or goes on; it never comes back.
PassOn == turn' = turn \/ <<turn, turn'>> \in {<<"client", "server">>, <<"server", "proxy">>,
                                               <<"client", "proxy">>}

Deliver(s) == /\ turn = s
              /\ IsPrefix(out[s], out'[s]) /\ IsPrefix(out'[s], in[s])
              /\ \A r \in Sides \ {s} : out'[r] = out[r]
              /\ PassOn
              /\ UNCHANGED in

Next == \E s \in Sides : Send(s) \/ Deliver(s)

Spec == Init /\ [][Next]_vars
=============================================================================
