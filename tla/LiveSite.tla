------------------------------ MODULE LiveSite ------------------------------
(***************************************************************************)
(* What a website promises its visitors: an album of editions, each fixed  *)
(* once it is printed, and one of them open.  Printing an edition opens    *)
(* it; an older one may be opened again; nothing else changes what is seen. *)
(***************************************************************************)
EXTENDS Integers, Sequences

CONSTANT Editions   \* what an edition may show

VARIABLES
    album,   \* the editions, in the order they were printed
    open     \* the number of the one visitors see; 0 before the first

LiveSiteTypeOK == /\ album \in Seq(Editions)
                  /\ open \in 0..Len(album)

LiveSiteInit == album = <<>> /\ open = 0

PrintEdition == /\ open' = Len(album) + 1
                /\ \E e \in Editions : album' = Append(album, e)

Reopen(n) == /\ open' = n
             /\ UNCHANGED album

LiveSiteNext == \/ PrintEdition
                \/ \E n \in 1..Len(album) : Reopen(n)

LiveSiteSpec == LiveSiteInit /\ [][LiveSiteNext]_<<album, open>>
=============================================================================
