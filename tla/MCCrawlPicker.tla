---------------------------- MODULE MCCrawlPicker ---------------------------
(* Small instances of CrawlPicker for TLC. *)
EXTENDS CrawlPicker, TLC

CONSTANTS hub, app, lib, test, gen, doc

(* A hub that everything mentions; an entrypoint two hops from lib; a test *)
(* beside its implementation; a generated file; a document nobody links.   *)
MCTracked == <<app, doc, gen, hub, lib, test>>
MCNeighbors == app :> <<hub, test>> @@ doc :> <<>> @@ gen :> <<hub, lib>>
            @@ hub :> <<app, gen, lib, test>> @@ lib :> <<gen, hub>> @@ test :> <<app, hub>>
MCSize == app :> 2 @@ doc :> 9 @@ gen :> 3 @@ hub :> 1 @@ lib :> 2 @@ test :> 1
MCClass == app :> "entrypoint" @@ doc :> "docs" @@ gen :> "generated"
        @@ hub :> "source" @@ lib :> "source" @@ test :> "test"
MCImpl == [f \in File |-> IF f = test THEN lib ELSE NoImpl]

(* Of like weight, and a tree where one file outweighs all the others. *)
Steep == app :> 52 @@ doc :> 40 @@ gen :> 70 @@ hub :> 75 @@ lib :> 60 @@ test :> 53
Cold  == [f \in File |-> IF f = hub THEN 100 ELSE IF f = app THEN 30 ELSE 5]
MCRelevances == {Steep, Cold}

Config(n, aware, cone, scoring) ==
    [bundles |-> n, classAware |-> aware, impactCone |-> cone, scoring |-> scoring]
MCConfigs == {Config(2, FALSE, FALSE, TRUE), Config(1, TRUE, TRUE, FALSE),
              Config(2, TRUE, FALSE, FALSE)}
PlainConfig == {Config(1, FALSE, FALSE, FALSE)}

MCChanges == {<<test, app, gen>>}
NoChanges == {}
=============================================================================
