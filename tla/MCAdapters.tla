----------------------------- MODULE MCAdapters -----------------------------
EXTENDS Adapters, TLC

Shape(p, i, a) == [platform |-> p, items |-> i, auto |-> a]

\* Texts that are published at once, texts and single media, and carousels.
AllShapes ==
    {Shape("threads", 0, TRUE), Shape("threads", 0, FALSE), Shape("threads", 2, FALSE),
     Shape("instagram", 1, FALSE), Shape("instagram", 2, FALSE)}

\* One chunk, and two (the last of which takes the odd byte of TikTok);
\* a source as long as declared, too short and too long.
AllFiles ==
    {f \in [host : {"tiktok", "youtube"}, size : {1, 4, 5}, length : 0 .. 6] :
        /\ f.size # IF f.host = "tiktok" THEN 4 ELSE 5
        /\ f.length <= f.size + 1 /\ f.size <= f.length + 1}

\* Nothing, one and two attachments at every host.
AllDrafts == [host : {"x", "bluesky", "linkedin", "photos", "video"}, parts : 0 .. 2]
=============================================================================
