------------------------------ MODULE MCSessioni ------------------------------
(* Small instances of Sessioni. *)
EXTENDS Sessioni, TLC

CONSTANTS r1, r2, capo, tizio, d1

(* The client with its device; the panel, by password and by OIDC, with none. *)
MCProvenienze == {<<"client", d1>>, <<"pannello", Nessuno>>, <<"oidc", Nessuno>>}

Simmetria == Permutations(Richieste)

=============================================================================
