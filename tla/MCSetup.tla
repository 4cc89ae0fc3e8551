------------------------------ MODULE MCSetup -------------------------------
(* What a host is set up with, as one instance for TLC: its profile, the   *)
(* administrators' socket, the ban list, the keys of its users, plugins,   *)
(* the grid it is in and the scripts it runs. They share no state, so a    *)
(* behaviour is one of part and leaves the others where they begin.        *)
EXTENDS HostProfile, AdminAPI, Guard, SSHKeys, Plugins, Grid, Chunks, TLC

VARIABLE part

setupVars == <<part, profileVars, adminVars, guardVars, sshVars, pluginVars,
               gridVars, chunkVars>>

(***************************************************************************)
(* The files, keys, batches and scripts of the instance.                   *)
(***************************************************************************)
FL(k, a, n, f) == [key |-> k, authority |-> a, names |-> n, form |-> f]
TheFileLines == { FL("k", FALSE, {"ann"}, "good"), FL("k", FALSE, {"root"}, "good"),
                  FL("k", FALSE, {}, "bare"), FL("c", TRUE, {}, "bare"), FL("c", TRUE, {"ann"}, "good"),
                  FL("k", FALSE, {"ann"}, "bad") }
TheOffers ==
    { [cert |-> FALSE, key |-> k, ca |-> "", principals |-> {}, claims |-> {}, inTime |-> TRUE,
       wellFormed |-> TRUE] : k \in {"k", "c"} }
    \cup { [cert |-> TRUE, key |-> "x", ca |-> a, principals |-> p, claims |-> q, inTime |-> t,
            wellFormed |-> w] :
              a \in {"c", "k"}, p \in {{}, {"ann"}, {"ann", "ops"}}, q \in {{}, {"ops"}},
              t \in BOOLEAN, w \in BOOLEAN }

HP(h, u, k) == [hash |-> h, users |-> u, kids |-> k]
TheCandidates == { HP(1, {"u"}, 1), HP(2, {"u"}, 2), HP(2, {}, 1), HP(1, {}, 0), HP(1, {"u"}, 0) }

TheBatches == {<<"b">>, <<"a", "b">>}

TheLines == {
    <<"if", " ", "w", " ", "{">>, <<"if", " ", "w", "{", " ", "w", " ", "}">>,
    <<"if", " ", "w", ":">>, <<"if", " ", "$", "{", "w", "}", "{">>, <<"if", " ", "{", "w", "}", ":">>,
    <<"if", " ", "w", ";", " ", "then">>, <<"fi">>,
    <<"try", "{">>, <<"-", "try", "{">>, <<"-", "w", " ", "=", " ", "{">>, <<"}", " ", "catch", " ", "{">>, <<"}", " ", "else", " ", "{">>,
    <<"}">>, <<"w">>, <<" ", "w">>, <<"#", " ", "}">>, <<"w", " ", "'", "}">>, <<"'">>,
    <<"w", " ", "=", " ", "{">>, <<"\"", "\\", "\"", "}", "\"">>,
    <<"{", "w">>, <<"def", " ", "w", ":">>, <<"exit">> }
\* A quote, something for an empty block, what closes blocks and ifs, a catch.
TheEnds ==
    { << >>, <<"}">>, <<"}", "}">>, <<"}", "}", "}">>, <<"fi">>, <<"fi", "fi">>,
      <<"fi", "fi", "fi">>, <<"}", "fi">>, <<"}", "}", "fi">>, <<"}", "fi", "fi">>,
      <<"}", "fi", "}">>, <<"fi", "}">>, <<"fi", "fi", "}">>, <<"fi", "}", "}">>,
      <<"}", "fi", "}", "}">>, <<"}", "}", "fi", "}">>, <<"}", "fi", "fi", "}">>,
      <<"}", "}", "fi", "fi">>, <<"}", "fi", "}", "fi">>, <<"fi", "}", "fi">>,
      <<"fi", "}", "}", "fi">>, <<"}", "fi", "}", "fi", "fi">>,
      <<"}", "fi", "}", "fi", "}">>, <<"}", "fi", "}", "fi", "}", "fi">> }
TheClosers == { q \o <<";", "w", ";">> \o e \o c :
                  q \in {<< >>, <<"'">>}, e \in TheEnds, c \in {<< >>, <<"catch", "{", "w", "}">>} }

\* The calls of a part are alike, and so are the servers and flights.
Symmetry == Permutations(Ops) \cup Permutations(Placed)

\* A part that does not run is in one of its first states.
SetupInit ==
    /\ part \in {"host", "admin", "guard", "keys", "plugins", "grid", "chunks"}
    /\ HostInit /\ AdminInit /\ GuardInit /\ SSHKeysInit /\ PluginsInit
    /\ GridInit /\ ChunksInit
    /\ part # "host" => inst = NoFile
    /\ part # "keys" => ~permitRoot /\ uids = [n \in LoginNames |-> IF n = Root THEN "root" ELSE "user"]

\* One part runs, and the others stay as they are.
SetupNext ==
    \/ /\ part = "host" /\ HostNext
       /\ UNCHANGED <<part, adminVars, guardVars, sshVars, pluginVars, gridVars,
                      chunkVars>>
    \/ /\ part = "admin" /\ AdminNext
       /\ UNCHANGED <<part, profileVars, guardVars, sshVars, pluginVars, gridVars,
                      chunkVars>>
    \/ /\ part = "guard" /\ GuardNext
       /\ UNCHANGED <<part, profileVars, adminVars, sshVars, pluginVars, gridVars,
                      chunkVars>>
    \/ /\ part = "keys" /\ SSHKeysNext
       /\ UNCHANGED <<part, profileVars, adminVars, guardVars, pluginVars, gridVars,
                      chunkVars>>
    \/ /\ part = "plugins" /\ PluginsNext
       /\ UNCHANGED <<part, profileVars, adminVars, guardVars, sshVars, gridVars,
                      chunkVars>>
    \/ /\ part = "grid" /\ GridNext
       /\ UNCHANGED <<part, profileVars, adminVars, guardVars, sshVars, pluginVars,
                      chunkVars>>
    \/ /\ part = "chunks" /\ ChunksNext
       /\ UNCHANGED <<part, profileVars, adminVars, guardVars, sshVars, pluginVars,
                      gridVars>>

SetupSpec == SetupInit /\ [][SetupNext]_setupVars
=============================================================================
