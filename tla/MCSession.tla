----------------------------- MODULE MCSession -----------------------------
EXTENDS Session

dir(s) == Directory(s)
MCBases == { <<dir("p")>>, <<dir("q")>> }
OneBase == { <<dir("p")>> }
\* a record, and one in its directory
MCRecords == { <<dir("a")>>, <<dir("a"), dir("b")>> }
MCAttachments == { <<"z", "txt">> }

ASSUME SheetsAreApart == Apart
=============================================================================
