------------------------------ MODULE MCChannels ------------------------------
(* Two messages, of four senders.                                            *)
EXTENDS Channels

CONSTANTS u1, u2, u3, u4, a, b, x, f1, f2

MCChannelOf ==
    (u1 :> "telegram") @@ (u2 :> "email") @@ (u3 :> "discord") @@ (u4 :> "whatsapp")

Msg(user, cmd, arg) ==
    [user |-> user, cmd |-> cmd, arg |-> arg, subject |-> None, files |-> {}, malformed |-> {},
     signed |-> TRUE, listed |-> TRUE, gateway |-> FALSE]

Unlisted == [Msg(u3, "ask", None) EXCEPT !.listed = FALSE, !.gateway = TRUE]

MCPosts ==
    { \* Two choices by one user.
      <<Msg(u2, "skill", a), Msg(u2, "skill", b)>>,
      \* A choice in a chat, and a call with a wrong signature.
      <<Msg(u1, "skill", b), [Msg(u1, "ask", None) EXCEPT !.signed = FALSE]>>,
      \* A text with attachments, and a message with no text.
      <<[Msg(u1, "ask", None) EXCEPT !.files = {f1, f2}], Msg(u1, "none", None)>>,
      \* An e-mail whose subject names a skill, with a malformed file; a choice of
      \* a skill that is not there.
      <<[Msg(u2, "help", None) EXCEPT !.subject = a, !.files = {f1, f2}, !.malformed = {f1}],
        Msg(u2, "skill", x)>>,
      \* A mention by a sender whom the guild does not list, then a command.
      <<Unlisted, Msg(u3, "help", None)>>,
      \* Files alone, one of them malformed, and a call with a wrong signature.
      <<[Msg(u4, "none", None) EXCEPT !.files = {f1, f2}, !.malformed = {f2}],
        [Msg(u4, "skill", a) EXCEPT !.signed = FALSE]>> }

MCTexts == {<<1, 2, 3, 0, 4>>}
=============================================================================
