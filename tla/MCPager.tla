------------------------------ MODULE MCPager ------------------------------
(* Two processes and a pool of frames smaller than their pages, or one     *)
(* process whose U-proc and SST page together.                             *)
(* Program pages are those up to 2; 9 is the top of the stack, whose first *)
(* block is 1.                                                             *)
EXTENDS Pager, TLC

MCPagesStack == 1 :> {0} @@ 2 :> {0, 9}
MCPagesAlone == 1 :> {0, 9}
MCPagesFull == 1 :> {0, 9} @@ 2 :> {0}
MCTextSize == 1 :> 1 @@ 2 :> 0
MCPagesMany == 1 :> {0, 8, 9} @@ 2 :> {0, 9}
=============================================================================
