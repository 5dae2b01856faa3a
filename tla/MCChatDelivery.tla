--------------------------- MODULE MCChatDelivery ---------------------------
(***************************************************************************)
(* One client of two conversations, one of which its cache keeps; two       *)
(* messages, this client's and another's, of one or two conversations, and  *)
(* pages of one message.                                                    *)
(***************************************************************************)
EXTENDS ChatDelivery, TLC

CONSTANTS m1, m2, c1, c2
TwoConversations == Permutations(Conversations)
Few == excuses = {} /\ Cardinality(unsure \cup unheard \cup forgotten) + losses <= 1
=============================================================================
