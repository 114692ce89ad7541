------------------------------ MODULE MCHubHost -----------------------------
EXTENDS HubHost

Camera(device, backend) == [device |-> device, serial |-> TRUE, backend |-> backend]
File(cams) == [file |-> "read", com |-> 3, frames |-> 2, discovery |-> "true", cameras |-> cams]

\* Two cameras, one, one without hardware beside a real one, the same device twice, and each
\* way a file can be wrong.
MCDocuments ==
  {File(<<Camera("c1", ""), Camera("c2", "daheng")>>),
   File(<<Camera("c1", "daheng")>>),
   File(<<Camera("c1", "null"), Camera("c2", "daheng")>>),
   File(<<Camera("c1", ""), Camera("c1", "")>>),
   File(<<Camera("c1", ""), Camera("c2", "other")>>),
   [File(<<[device |-> "c1", serial |-> FALSE, backend |-> ""], Camera("c2", "")>>)
      EXCEPT !.frames = 5000, !.discovery = "unquoted"],
   [File(<<Camera("c1", "")>>) EXCEPT !.com = Unquoted, !.discovery = "false"],
   [File(<<>>) EXCEPT !.file = "missing"],
   [File(<<>>) EXCEPT !.file = "unreadable"],
   File(<<>>)}

Pair(type, value) == [type |-> type, value |-> value]
MCRequests ==
  {<<Pair("exposure", 1)>>, <<Pair("gain", 1), Pair("exposure", 2)>>,
   <<Pair("exposure", 1), Pair("depth", 1), Pair("gain", 1)>>}
=============================================================================
