------------------------- MODULE Catalogues ----------------------------
(* Small catalogues for ModelResolution: a family of two shared instances   *)
(* and one of u1's own, all serving "gpt", and an instance alone in its     *)
(* family whose model's bare name has a '/'. u1 is in a profile with lists  *)
(* of its own.                                                              *)
EXTENDS TLC

CONSTANTS u1, u2, None

TheCallers   == {u1, u2}
TheProviders == {"one", "two", "box", "own"}
TheFamilyOf  == [p \in TheProviders |-> IF p = "box" THEN "lm" ELSE "az"]
TheOwner     == [p \in TheProviders |-> IF p = "own" THEN u1 ELSE None]
TheProfileOf == (u1 :> "team") @@ (u2 :> "default")
TheSupports  == {<<"one", "gpt">>, <<"own", "gpt">>}
TheExceptions == <<"two", "gpt">> :> TRUE @@ <<"one", "gpt">> :> FALSE
TheNames == {<<"gpt">>, <<"az", "gpt">>, <<"own", "gpt">>, <<"two", "gpt">>,
            <<"lm", "ll", "x">>, <<"ll", "x">>, <<"nope">>}
TheRoutes == {"json", "form", "untracked", "deployment"}

\* No rules; rules that would chain; rules that would swap two names; a rule to u1's own.
TheLists == {<<>>,
            <<"gpt">> :> <<"box", "ll", "x">> @@ <<"box", "ll", "x">> :> <<"two", "gpt">>,
            <<"gpt">> :> <<"nope">> @@ <<"nope">> :> <<"gpt">>,
            <<"two", "gpt">> :> <<"own", "gpt">>}

Plain == [live |-> TheProviders, off |-> {}, down |-> {}, mode |-> [p \in {"team", "default"} |-> "default"],
          cached |-> {<<"one", "gpt">>, <<"two", "gpt">>, <<"own", "gpt">>, <<"box", "ll", "x">>}]
Failing == [Plain EXCEPT !.down = {<<"one">>, <<"two", "gpt">>}, !.mode["team"] = "custom"]
TheStarts == {Plain, Failing}

TheConfigs ==
    {Plain, Failing,
     [Plain EXCEPT !.off = {<<"one", "gpt">>}, !.mode["default"] = "allow"],
     [Plain EXCEPT !.down = {<<"box">>}, !.live = {"one", "box", "own"}, !.mode["default"] = "deny"],
     [Plain EXCEPT !.off = {<<"own", "gpt">>, <<"two", "gpt">>}, !.cached = @ \ {<<"one", "gpt">>}]}
=============================================================================
