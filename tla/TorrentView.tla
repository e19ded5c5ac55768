------------------------------ MODULE TorrentView ------------------------------
(***************************************************************************)
(* What the clients of qBittorrent's interface and the status page are     *)
(* shown of aMule's files and figures (src/amarr/torrent/service.py and    *)
(* models.py, amule/debug_api.py): operators on what ECMessages has read.  *)
(***************************************************************************)
EXTENDS ECMessages

NO_ETA == 8640000

FileState ==
    [READY |-> 0, ERROR |-> 4, INSUFFICIENT |-> 5, PAUSED |-> 7, COMPLETING |-> 8,
     COMPLETE |-> 9, ALLOCATING |-> 10]

\* Sources that are sending make a download of whatever status.
StateOf(dl) ==
    LET status == dl.file_status
    IN  CASE dl.source_xfer_count > 0 -> "downloading"
          [] dl.source_xfer_count = 0 /\ status = FileState.READY -> "metaDL"
          [] dl.source_xfer_count = 0 /\ status = FileState.COMPLETING -> "checkingDL"
          [] dl.source_xfer_count = 0 /\ status = FileState.COMPLETE -> "uploading"
          [] dl.source_xfer_count = 0 /\ status = FileState.PAUSED -> "pausedDL"
          [] dl.source_xfer_count = 0 /\ status = FileState.ALLOCATING -> "allocating"
          [] dl.source_xfer_count = 0 /\ status \in {FileState.ERROR, FileState.INSUFFICIENT} ->
                 "error"
          [] OTHER -> "unknown"

\* Mutant of CappedETA: the quotient is not capped.
UncappedETA(remaining, speed) == remaining \div speed

CappedETA(remaining, speed) ==
    IF remaining \div speed < NO_ETA THEN remaining \div speed ELSE NO_ETA

\* Arithmetic on a size or a speed that is None raises.
compute_eta(speed, size_full, size_done) ==
    IF speed = None \/ size_full = None \/ size_done = None THEN Raised
    ELSE <<IF speed[1] = 0 THEN NO_ETA ELSE CappedETA(size_full[1] - size_done[1], speed[1])>>

\* A fraction; zero when a size is zero or None.
compute_progress(size_done, size_full) ==
    IF size_full \in {None, <<0>>} \/ size_done \in {None, <<0>>} THEN <<0, 1>>
    ELSE <<size_done[1], size_full[1]>>

\* The fields of TorrentInfo that must not be None; the model refuses the others.
Validated(info) ==
    IF \E f \in {"hash", "name", "size", "downloaded", "dlspeed"} : info[f] = None THEN Raised
    ELSE <<[info EXCEPT !.hash = @[1], !.name = @[1], !.size = @[1], !.downloaded = @[1],
                        !.dlspeed = @[1]]>>

transferring_to_info(dl) ==
    Then(compute_eta(dl.speed, dl.size_full, dl.size_done), LAMBDA eta :
        Validated([hash |-> dl.file_hash_hex_string, name |-> dl.file_name,
                        size |-> dl.size_full, downloaded |-> dl.size_done,
                        progress |-> compute_progress(dl.size_done, dl.size_full),
                        priority |-> dl.down_prio, state |-> StateOf(dl), dlspeed |-> dl.speed,
                        num_seeds |-> dl.source_xfer_count, eta |-> eta]))

shared_to_info(file) ==
    Validated([hash |-> file.file_hash_hex_string, name |-> file.file_name,
               size |-> file.size_full, downloaded |-> file.size_full,
               progress |-> <<1, 1>>, priority |-> 0, state |-> "uploading", dlspeed |-> <<0>>,
               num_seeds |-> 0, eta |-> 0])

\* The shared files that are not being downloaded, then the downloads; all categories.
get_torrent_info(downloading, shared) ==
    LET rest == Where(shared, LAMBDA f : \A i \in DOMAIN downloading :
                    downloading[i].file_hash_hex_string # f.file_hash_hex_string)
    IN  AllOf([i \in DOMAIN rest |-> shared_to_info(rest[i])]
                  \o [i \in DOMAIN downloading |-> transferring_to_info(downloading[i])])

\* The status page: the figures as they are, nothing of the networks without their tag.
from_stats_response(stats) ==
    [stats EXCEPT !.connection_state =
         IF @ = None THEN None
         ELSE <<[@[1] EXCEPT !.server_ipv4 = IF @ = None THEN None ELSE <<@[1].address>>]>>]

=============================================================================
