-------------------------- MODULE MCRenderPipeline --------------------------
(***************************************************************************)
(* Small instances of RenderPipeline.  Two spellings of the name of one    *)
(* player, and another player who may come to have the same replay.        *)
(***************************************************************************)
EXTENDS RenderPipeline

CONSTANTS alice, Alice, bob, h1, h2, h3, p1, r1, r2

OneKey == [id \in Ids |-> IF id = bob THEN bob ELSE alice]
=============================================================================
