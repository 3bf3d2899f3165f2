----------------------------- MODULE MCChatPeer ----------------------------
(* A user who waits, breaks, waits again and talks.                        *)
EXTENDS ChatPeer

Troubles == {{}, {"crossing"}, {"late"}, {"hasty"}}
=============================================================================
