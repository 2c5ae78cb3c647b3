----------------------------- MODULE MCRegistry -----------------------------
(* Two boards of one platform, one of another; the slugs a and b are in    *)
(* that order, and the guesses are the two boards with slug a.             *)
EXTENDS Registry, TLC

CONSTANTS acme, ga, gb, la

MCPlatform == ga :> "greenhouse" @@ gb :> "greenhouse" @@ la :> "lever"
MCSlug == ga :> "a" @@ gb :> "b" @@ la :> "a"
MCOrder == <<ga, la, gb>>
MCGuesses == acme :> {ga, la}
Site(page, rendered, alive) == [page |-> page, rendered |-> rendered, alive |-> alive]
MCSites == {Site({gb}, {gb}, {ga, gb}), Site({}, {gb}, {gb}),
            Site({ga, gb, la}, {gb}, {gb})}
=============================================================================
