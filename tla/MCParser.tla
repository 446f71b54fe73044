------------------------------ MODULE MCParser ------------------------------
(* Parser with a document for each way through it: more levels than a message  *)
(* holds, fields that are absent, a level that is no array, no document.      *)
EXTENDS Parser, TLC

CONSTANTS i1
Nothing == [e |-> Absent, lastUpdateId |-> Absent, bids |-> Absent, asks |-> Absent,
            s |-> Absent, U |-> Absent, u |-> Absent, b |-> Absent, a |-> Absent, T |-> Absent]

Snapshot == [Nothing EXCEPT !.lastUpdateId = 7, !.bids = <<3, 2>>]
Update == [Nothing EXCEPT !.e = "depthUpdate", !.s = i1, !.U = 2, !.u = 3,
                          !.b = <<1>>, !.a = <<4, 5, NoArray>>]
Broken == [Nothing EXCEPT !.e = "depthUpdate", !.b = <<NoArray>>]
Trade == [Nothing EXCEPT !.e = "trade", !.s = i1]
MCDocuments == {Malformed, Snapshot, Update, Broken, Trade}

MCFeeds == {
    <<Update, Snapshot, Update, Trade, Update>>,
    <<Malformed, Malformed, Malformed, Malformed, Snapshot>>,
    <<Update, Invalid, Trade, Null, Update>>,
    <<Trade, Update, Broken>>}

=============================================================================
