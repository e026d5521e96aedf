------------------------- MODULE MCEntityUnmasking -------------------------
(* Two providers, Anthropic first, and a key of each length.               *)
EXTENDS EntityUnmasking

CONSTANTS anthropic, local_ollama, long, short

MCProviders == {anthropic, local_ollama}
MCKeys      == {long, short}
MCShort     == {short}
MCLocal     == {local_ollama}
MCRank      == [p \in MCProviders |-> IF p = anthropic THEN 1 ELSE 2]
=============================================================================
