--------------------------- MODULE MCLLMScheduler ---------------------------
(* Small instances of LLMScheduler for TLC. *)
EXTENDS LLMScheduler, TLC

CONSTANTS s1, s2, h1, h2

P(hash, file, priority, template, replay) ==
    [hash |-> hash, file |-> file, priority |-> priority, template |-> template,
     replay |-> replay]

Plain(hash, priority) == P(hash, "plain", priority, TRUE, FALSE)

MCSize == s1 :> 3 @@ s2 :> 1

Batch(first, second) ==
    [j \in Job |-> IF j[1] = s1 THEN first[j[2]] ELSE second]

Suppressed == P(h1, "suppressed", 9, TRUE, FALSE)
Generated  == P(h1, "generated", 9, TRUE, FALSE)
Replay(hash, priority) == P(hash, "plain", priority, TRUE, TRUE)
NoTemplate(hash, priority) == P(hash, "plain", priority, FALSE, FALSE)

(* One question at both tiers, beside a scan that writes and reads the     *)
(* same entry; the same question again; more questions than the budget has *)
(* calls; a rule without a template; a replay.                             *)
BothTiers  == Batch(<<Plain(h1, 5), Plain(h1, 9), Plain(h1, 2)>>, Plain(h1, 5))
Duplicates == Batch(<<Plain(h1, 5), Plain(h1, NoPriority), Plain(h1, 3)>>, Suppressed)
TooMany    == Batch(<<Plain(h1, 7), Plain(h2, 3), Plain(h2, 9)>>, Generated)
Raising    == Batch(<<NoTemplate(h2, 5), Plain(h1, 3), Suppressed>>, Plain(h1, NoPriority))
Replayed   == Batch(<<Replay(h1, 9), Replay(h2, 5), Replay(h2, 9)>>, Plain(h1, 9))

MCBatches == {BothTiers, Duplicates, TooMany, Raising, Replayed}
=============================================================================
