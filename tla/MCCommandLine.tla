--------------------------- MODULE MCCommandLine ---------------------------
(* An instance of CommandLine for TLC. *)
EXTENDS CommandLine

CONSTANTS rcvd, snt

MCItems == {Task("list", t) : t \in {"received", "sent"}}
           \cup {Task("download", m) : m \in Messages}
           \cup {Task("send", r) : r \in Recipients}

MCType == [m \in {rcvd, snt} |-> IF m = rcvd THEN "received" ELSE "sent"]

MCRequests ==
  [service : {"login", "getmessageids", "checkattachment"}]
  \cup [service : {"getmessagelist"}, types : {<<"received", "sent">>, <<"sent">>},
        complete : BOOLEAN]
  \cup [service : {"sendmessage"}, recipients : {<<"a", "b">>, <<"b", "b">>}]
  \cup [service : {"getmessage", "getdeliveryinfo"}, msg : {rcvd, snt},
        download : {"absent", "no", "yes"},
        files : {{}, {"zfoFile"}, {"attachmentDir", "markDownload"}}]

MCCharacters == {"t", Quote, Backslash, Semicolon, Comma, Space}
MCScraps == {<<"t">>, Text \o <<Equals>>, List \o <<Equals>>, Flag \o <<Equals, "1">>,
             <<Quote>>, <<Backslash>>, <<Semicolon>>, <<Comma>>, <<Space>>}
=============================================================================
