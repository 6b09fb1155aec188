------------------------------ MODULE MCAppData ------------------------------
\* AppData with a cover in two sizes and an artist's image, two profiles and two
\* accounts; the backup, if there is one, is of the profile not used before.
EXTENDS AppData

CONSTANTS p1, p2, a1, a2, small, large, artist, t1, t2, w1, w2

MCOwnerOf == [i \in Images |-> p1]
MCLarger == [i \in Images |-> IF i = small THEN <<large>> ELSE <<>>]
MCBefore ==
    {[i \in Images |-> IF i = large THEN "absent" ELSE "stale"],
     [i \in Images |-> IF i = large THEN "fresh" ELSE "absent"]}
MCBackups ==
    LET file == Connected(NoProfiles, p2, a2)
    IN {[file |-> file, secrets |-> file.account]}
=============================================================================
