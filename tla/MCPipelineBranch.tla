-------------------------- MODULE MCPipelineBranch --------------------------
(* An employer with an ATS and one whose page is crawled, one or two       *)
(* postings each.                                                          *)
EXTENDS PipelineBranch, TLC

CONSTANTS Ats, Careers, la, lb, lc

OnePosting == Ats :> {la} @@ Careers :> {lb}
TwoPostings == Ats :> {la} @@ Careers :> {lb, lc}
=============================================================================
