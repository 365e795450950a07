---------------------------- MODULE MCConversation ----------------------------
(* Two turns with the fake CLI, with its permission and hook prompts.         *)
EXTENDS Conversation

CONSTANTS init, end, set, p1, p2, perm, hook, s1

Subtypes == [q \in Requests |-> IF q = perm THEN "can_use_tool" ELSE "hook_callback"]
==============================================================================
