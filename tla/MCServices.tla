------------------------------ MODULE MCServices ------------------------------
(* Values for TLC of the constants of Services.                            *)
EXTENDS Services

ThreeRuns == 1..3

plain == [role |-> None, agent |-> None, model |-> None, kind |-> None,
          sensitive |-> FALSE, listed |-> TRUE, secret |-> FALSE,
          exclude |-> {}, failover |-> TRUE, conv |-> FALSE]
turn == [plain EXCEPT !.agent = "claude", !.conv = TRUE]
sensitiveBackend == [plain EXCEPT !.role = "dev_backend", !.sensitive = TRUE]
secretBackend == [plain EXCEPT !.role = "dev_backend", !.secret = TRUE]
productOwner == [plain EXCEPT !.role = "product_owner"]
unaskedOpus == [plain EXCEPT !.agent = "claude", !.model = "opus"]
privateArticle == [plain EXCEPT !.agent = "content", !.sensitive = TRUE]
privatePost == [plain EXCEPT !.agent = "social", !.sensitive = TRUE]
research == [plain EXCEPT !.kind = "research"]
sensitiveResearch == [research EXCEPT !.sensitive = TRUE]
pinned == [plain EXCEPT !.kind = "bulk", !.failover = FALSE]
privateDeepseek == [plain EXCEPT !.kind = "privacy", !.agent = "deepseek"]

MixedRequests ==
  <<{turn, sensitiveBackend, privateArticle, research},
    {turn, productOwner, unaskedOpus, pinned, privateDeepseek, privatePost, sensitiveResearch},
    {turn}>>

\* Every request carries something that looks like a credential.
SecretRequests == [r \in ThreeRuns |-> {secretBackend}]

TwoAsks == 1..2

TwoVariants == <<"baseline", "lean">>

\* One thing at a time goes wrong in a run of an experiment.
good == [status |-> "ok", good |-> TRUE, files |-> FALSE, leaves |-> "nothing", later |-> "nothing",
         review |-> "APPROVE", cost |-> 1]
bad  == [good EXCEPT !.good = FALSE]

OneThingWrong ==
  {good, [good EXCEPT !.cost = 2], bad, [bad EXCEPT !.files = TRUE]}
    \cup {[bad EXCEPT !.leaves = l] : l \in {"kept", "once", "hidden", "hidden_once"}}
    \cup {[good EXCEPT !.later = l] : l \in {"kept", "once", "hidden"}}
    \cup {[good EXCEPT !.review = r] : r \in {"REQUEST_CHANGES", "diff_failed"}}
    \cup {[good EXCEPT !.status = s, !.leaves = l] :
            s \in {"budget_exceeded", "invalid_failover", "error"}, l \in {"nothing", "kept"}}
==============================================================================
