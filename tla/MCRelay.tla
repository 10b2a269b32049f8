------------------------------ MODULE MCRelay ------------------------------
(* A small request and its answer: an instance of Exchange for TLC.        *)
EXTENDS Exchange, TLC

CONSTANTS call1, call2

\* Three messages of OpenAI or two of Anthropic.
MCMaxMessages == [openai |-> 3, anthropic |-> 2]

\* The theorems about RequestBody and SSEReader hold of their constants here.
ASSUME ExchangeAssumption == B!ConstantsOK /\ S!ConstantsOK
=============================================================================
