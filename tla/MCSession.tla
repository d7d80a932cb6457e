----------------------------- MODULE MCSession -----------------------------
(***************************************************************************)
(* Instances of Session for TLC: two clients of one server.                 *)
(***************************************************************************)
EXTENDS Session

CONSTANTS a, b

TwoClients == {a, b}

\* One of them leaves, the other one stays.
JustA == {a}
Wants(x, y) == (a :> x) @@ (b :> y)
Some(plays, chats, packs) ==
  ("PLAY" :> plays) @@ ("CHAT" :> chats) @@ ("OPEN_PACK" :> packs) @@ ("OTHER" :> 0)

\* Two rounds, or a play and a pack, or a chat.
Evenings == {Wants(Some(2, 0, 0), Some(2, 0, 0)),
             Wants(Some(0, 0, 0), Some(1, 0, 1)),
             Wants(Some(0, 0, 0), Some(0, 1, 0))}
=============================================================================
