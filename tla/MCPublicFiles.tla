--------------------------- MODULE MCPublicFiles ---------------------------
EXTENDS PublicFiles

\* Jobs that can meet, beside an upload. None has /share and a SHA-256 download with
\* another job that links the SHA-256 name.
Teams4 == {<<"upload", "upload", "blake3", "sha256">>,
           <<"upload", "upload", "share", "blake3">>,
           <<"upload", "upload", "share", "sha256">>,
           <<"upload", "upload", "blake3", "small">>,
           <<"upload", "share", "share", "small">>,
           <<"upload", "share", "blake3", "small">>}
=============================================================================
