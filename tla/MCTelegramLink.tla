--------------------------- MODULE MCTelegramLink ---------------------------
\* A small instance of TelegramLink for TLC.  Jobs and chats are
\* interchangeable; users are not, their ids are ordered.
EXTENDS TelegramLink, TLC

MCSymmetry == Permutations(Jobs) \cup Permutations(Chats)
=============================================================================
