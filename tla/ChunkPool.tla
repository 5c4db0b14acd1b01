------------------------------ MODULE ChunkPool ------------------------------
(***************************************************************************)
(* What the users of executable memory rely on: a chunk that is handed out *)
(* is in nobody else's hands until it is given back.                       *)
(***************************************************************************)
CONSTANT Chunk      \* addresses of chunks
VARIABLE used       \* chunks handed out

Init == used = {}

Take(c) == c \in Chunk \ used /\ used' = used \cup {c}
Give(c) == c \in used /\ used' = used \ {c}

Next == \E c \in Chunk : Take(c) \/ Give(c)
Spec == Init /\ [][Next]_used
=============================================================================
