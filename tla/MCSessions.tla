---- MODULE MCSessions ----
(* Model checking Sessions: an ID token that ends on the way, one of each kind that
   is refused and that outlives the run, and a good one with another RSA method. *)
EXTENDS Sessions
Good == [sub |-> "ann", signer |-> "Google", alg |-> "RS256", exp |-> 2,
         iss |-> "https://accounts.google.com", aud |-> {"web", "app"}]
Late == [Good EXCEPT !.exp = 4]
MCIdTokens == {Good, [Late EXCEPT !.alg = "RS384", !.iss = "accounts.google.com", !.aud = {"web"}],
  [Late EXCEPT !.aud = {"app"}], [Late EXCEPT !.signer = "somebody"], [Late EXCEPT !.alg = "HS256"],
  [Late EXCEPT !.iss = "other"]}
====
