------------------------- MODULE MCRequestHandling -------------------------
(* RequestHandling on a small instance: see the MCRequest*.cfg. *)
EXTENDS RequestHandling

(* One path is a prefix of another. *)
SmallPaths == {<<"a">>, <<"a", "b">>, <<"b">>}
SmallMethods == {"GET", "HEAD", "POST", "OPTIONS"}
SmallMethodSets == {SmallMethods, {"GET"}, {"HEAD", "POST"}}

(* The root directory, /r, a file in it, one beside it, and one elsewhere. *)
SmallRealPaths == {<<"/">>, <<"/", "r">>, <<"/", "r", "/", "a">>, <<"/", "r", "a">>,
                   <<"/", "a">>}
SmallRoot == <<"/", "r">>
=============================================================================
