----------------------------- MODULE MCIdentity -----------------------------
(* The instance of Identity that asks who decides over a four-eyes request,  *)
(* and what the instances that extend it are given: tokens and the keys that *)
(* sign them, what is typed and pasted, and the lines of a shell.            *)
EXTENDS Identity

Tok(u, a, g, s) ==
    [user |-> u, aud |-> a, groups |-> g, signer |-> s, alg |-> "RS256", kid |-> "k1", iat |-> 0, exp |-> 2]
TheTokens == { Tok("ana", {"login"}, {"root", "ops"}, "idp"),
               Tok("eve", {"admin"}, {"root"}, "other"), Tok("both", {"admin", "login"}, {"root"}, "idp") }
Jwk(alg, use, s) == [kid |-> "k1", rsa |-> TRUE, alg |-> alg, use |-> use, signer |-> s]
TheJwks == << Jwk("", "enc", "other"), Jwk("PS256", "sig", "other"), Jwk("RS256", "sig", "idp") >>

TheBursts == {<<"esc">>, <<"run", "nl">>}
TheClips == { <<"x">>, <<"nl", "x">>, <<"x", "nl", "x">>, <<"tok", "nl">>, <<"esc", "e", "nl">>,
              <<"esc", "e", "esc", "s", "x", "nl">> }
OneClip == { <<"x">>, <<"x", "nl", "x">> }

St(i, k) == [id |-> i, kind |-> k]
Ch(f, x, y, z) == [form |-> f, a |-> x, b |-> y, c |-> z, ignore |-> FALSE]
PlainChunk == Ch("plain", <<St(1, "cmd"), St(2, "decl"), St(3, "exit")>>, <<>>, <<>>)
AskChunk == Ch("plain", <<St(1, "confirm"), St(2, "cmd")>>, <<>>, <<>>)
TryChunk == Ch("try", <<St(1, "cmd"), St(2, "cmd")>>, <<St(3, "decl"), St(4, "cmd")>>, <<>>)
IfChunk == Ch("if", <<St(1, "cmd"), St(2, "confirm")>>, <<St(3, "exit")>>, <<St(4, "decl")>>)
StarChunk == Ch("star", <<>>, <<>>, <<>>)
SourceChunk == Ch("source", <<St(5, "cmd"), St(6, "exit")>>, <<>>, <<>>)
HeldLine == <<Ch("plain", <<St(5, "cmd")>>, <<>>, <<>>), [StarChunk EXCEPT !.ignore = TRUE], TryChunk>>
TheLines == { <<PlainChunk>>, <<AskChunk>>, <<TryChunk>>, <<IfChunk>>, <<StarChunk>>, <<SourceChunk>>, HeldLine }
TheTraps == {<<St(7, "cmd"), St(8, "decl")>>}
=============================================================================
