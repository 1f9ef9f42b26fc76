------------------------------- MODULE MCFeeds -------------------------------
(***************************************************************************)
(* Feeds on a small instance.  The chain socket and the tip floor share    *)
(* nothing, so each behaviour runs one of them.                            *)
(***************************************************************************)
EXTENDS Feeds

VARIABLE focus

MCInit == Init /\ focus \in {"chain", "tips"}

ChainGoes == focus = "chain" /\ ChainStep /\ UNCHANGED <<tips, focus>>
TipsGo == focus = "tips" /\ TipsStep /\ UNCHANGED <<chainVars, focus>>
MCNext == ChainGoes \/ TipsGo

Go(A) == A /\ UNCHANGED tips /\ focus = "chain" /\ UNCHANGED focus
Tip(A) == A /\ UNCHANGED chainVars /\ focus = "tips" /\ UNCHANGED focus
all == <<vars, focus>>

\* The tasks run (WF), and REST answers when asked again and again (SF).
MCSpec ==
    /\ MCInit /\ [][MCNext]_all
    /\ WF_all(Go(Read \/ IdleTimeout \/ Tick)) /\ WF_all(Go(PollEpoch))
    /\ WF_all(Tip(AskFloor)) /\ SF_all(Tip(FloorArrives)) /\ WF_all(Tip(TipsTime))

----------------------------------------------------------------------------
(* Properties *)

\* The head of the chain is followed even if the socket never says a word of
\* it (run_block_height_poller beside run_chain_ws).
HeadIsFollowed == []<>(focus = "chain" => ~Behind)

\* A connection that is cut without a word is noticed and given up (the 15 s
\* timeout of run_chain_ws, reset by every message).
CutIsNoticed == []<>(focus = "chain" => ~Cut)

\* The tip floor is followed whatever becomes of the stream (the 45 s rule of
\* the poll in engine.rs beside run_text_stream).
FloorIsFollowed == []<>(focus = "tips" => ~FloorBehind)

\* Whatever fails silently is made up for by somebody's timer: the head, the
\* connection and the tip floor (the timers of feed.rs and of engine.rs).
FeedsRecover == HeadIsFollowed /\ CutIsNoticed /\ FloorIsFollowed
=============================================================================
