------------------------------- MODULE MCFat -------------------------------
\* Fat on small volumes: one and two sectors to a cluster, a root directory that
\* lies behind what an offset can count, and an image that is no volume.
EXTENDS Fat

Volume(bytes, sectors, root) ==
    [bytes_per_sector |-> bytes, sectors_per_cluster |-> sectors, fat_sectors |-> 3,
     root_dir_cluster |-> root]
MCGeometry == {Volume(16, 1, 2), Volume(16, 2, 3), Volume(16, 1, 20), Volume(0, 1, 2)}
=============================================================================
