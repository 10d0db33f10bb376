---------------------------- MODULE StaticTable ----------------------------
(***************************************************************************)
(* QPACK's static table.  The code keeps it three times: the entries by    *)
(* index, the index of a field as the arms of a match, and the index of a  *)
(* name as the arms of another; what one end writes by one of the matches  *)
(* the other end reads back from the entries.                              *)
(***************************************************************************)
EXTENDS Integers, Sequences, SequencesExt

PREDEFINED_HEADERS ==
  <<<<":authority", "">>, <<":path", "/">>, <<"age", "0">>, <<"content-disposition", "">>,
    <<"content-length", "0">>, <<"cookie", "">>, <<"date", "">>, <<"etag", "">>,
    <<"if-modified-since", "">>, <<"if-none-match", "">>, <<"last-modified", "">>,
    <<"link", "">>, <<"location", "">>, <<"referer", "">>, <<"set-cookie", "">>,
    <<":method", "CONNECT">>, <<":method", "DELETE">>, <<":method", "GET">>,
    <<":method", "HEAD">>, <<":method", "OPTIONS">>, <<":method", "POST">>, <<":method", "PUT">>,
    <<":scheme", "http">>, <<":scheme", "https">>, <<":status", "103">>, <<":status", "200">>,
    <<":status", "304">>, <<":status", "404">>, <<":status", "503">>, <<"accept", "*/*">>,
    <<"accept", "application/dns-message">>, <<"accept-encoding", "gzip, deflate, br">>,
    <<"accept-ranges", "bytes">>, <<"access-control-allow-headers", "cache-control">>,
    <<"access-control-allow-headers", "content-type">>, <<"access-control-allow-origin", "*">>,
    <<"cache-control", "max-age=0">>, <<"cache-control", "max-age=2592000">>,
    <<"cache-control", "max-age=604800">>, <<"cache-control", "no-cache">>,
    <<"cache-control", "no-store">>, <<"cache-control", "public, max-age=31536000">>,
    <<"content-encoding", "br">>, <<"content-encoding", "gzip">>,
    <<"content-type", "application/dns-message">>, <<"content-type", "application/javascript">>,
    <<"content-type", "application/json">>,
    <<"content-type", "application/x-www-form-urlencoded">>, <<"content-type", "image/gif">>,
    <<"content-type", "image/jpeg">>, <<"content-type", "image/png">>,
    <<"content-type", "text/css">>, <<"content-type", "text/html; charset=utf-8">>,
    <<"content-type", "text/plain">>, <<"content-type", "text/plain;charset=utf-8">>,
    <<"range", "bytes=0-">>, <<"strict-transport-security", "max-age=31536000">>,
    <<"strict-transport-security", "max-age=31536000; includesubdomains">>,
    <<"strict-transport-security", "max-age=31536000; includesubdomains; preload">>,
    <<"vary", "accept-encoding">>, <<"vary", "origin">>, <<"x-content-type-options", "nosniff">>,
    <<"x-xss-protection", "1; mode=block">>, <<":status", "100">>, <<":status", "204">>,
    <<":status", "206">>, <<":status", "302">>, <<":status", "400">>, <<":status", "403">>,
    <<":status", "421">>, <<":status", "425">>, <<":status", "500">>, <<"accept-language", "">>,
    <<"access-control-allow-credentials", "FALSE">>,
    <<"access-control-allow-credentials", "TRUE">>, <<"access-control-allow-headers", "*">>,
    <<"access-control-allow-methods", "get">>,
    <<"access-control-allow-methods", "get, post, options">>,
    <<"access-control-allow-methods", "options">>,
    <<"access-control-expose-headers", "content-length">>,
    <<"access-control-request-headers", "content-type">>,
    <<"access-control-request-method", "get">>, <<"access-control-request-method", "post">>,
    <<"alt-svc", "clear">>, <<"authorization", "">>,
    <<"content-security-policy", "script-src 'none'; object-src 'none'; base-uri 'none'">>,
    <<"early-data", "1">>, <<"expect-ct", "">>, <<"forwarded", "">>, <<"if-range", "">>,
    <<"origin", "">>, <<"purpose", "prefetch">>, <<"server", "">>,
    <<"timing-allow-origin", "*">>, <<"upgrade-insecure-requests", "1">>, <<"user-agent", "">>,
    <<"x-forwarded-for", "">>, <<"x-frame-options", "deny">>, <<"x-frame-options", "sameorigin">>>>

(* StaticTable::get, for an index of the table.                            *)
InTable(index) == index < Len(PREDEFINED_HEADERS)
get(index) == PREDEFINED_HEADERS[index + 1]

(* The arms of find: a name, an index, and the values that have this index *)
(* and the ones after it.                                                  *)
FindArms ==
  <<<<":authority", 0, <<"">>>>, <<":path", 1, <<"/">>>>, <<"age", 2, <<"0">>>>,
    <<"content-disposition", 3, <<"">>>>, <<"content-length", 4, <<"0">>>>,
    <<"cookie", 5, <<"">>>>, <<"date", 6, <<"">>>>, <<"etag", 7, <<"">>>>,
    <<"if-modified-since", 8, <<"">>>>, <<"if-none-match", 9, <<"">>>>,
    <<"last-modified", 10, <<"">>>>, <<"link", 11, <<"">>>>, <<"location", 12, <<"">>>>,
    <<"referer", 13, <<"">>>>, <<"set-cookie", 14, <<"">>>>,
    <<":method", 15, <<"CONNECT", "DELETE", "GET", "HEAD", "OPTIONS", "POST", "PUT">>>>,
    <<":scheme", 22, <<"http", "https">>>>,
    <<":status", 24, <<"103", "200", "304", "404", "503">>>>,
    <<"accept", 29, <<"*/*", "application/dns-message">>>>,
    <<"accept-encoding", 31, <<"gzip, deflate, br">>>>, <<"accept-ranges", 32, <<"bytes">>>>,
    <<"access-control-allow-headers", 33, <<"cache-control", "content-type">>>>,
    <<"access-control-allow-origin", 35, <<"*">>>>,
    <<"cache-control", 36, <<"max-age=0", "max-age=2592000", "max-age=604800", "no-cache", "no-store", "public, max-age=31536000">>>>,
    <<"content-encoding", 42, <<"br", "gzip">>>>,
    <<"content-type", 44, <<"application/dns-message", "application/javascript", "application/json", "application/x-www-form-urlencoded", "image/gif", "image/jpeg", "image/png", "text/css", "text/html; charset=utf-8", "text/plain", "text/plain;charset=utf-8">>>>,
    <<"range", 55, <<"bytes=0-">>>>,
    <<"strict-transport-security", 56, <<"max-age=31536000", "max-age=31536000; includesubdomains", "max-age=31536000; includesubdomains; preload">>>>,
    <<"vary", 59, <<"accept-encoding", "origin">>>>,
    <<"x-content-type-options", 61, <<"nosniff">>>>,
    <<"x-xss-protection", 62, <<"1; mode=block">>>>,
    <<":status", 63, <<"100", "204", "206", "302", "400", "403", "421", "425", "500">>>>,
    <<"accept-language", 72, <<"">>>>,
    <<"access-control-allow-credentials", 73, <<"FALSE", "TRUE">>>>,
    <<"access-control-allow-headers", 75, <<"*">>>>,
    <<"access-control-allow-methods", 76, <<"get", "get, post, options", "options">>>>,
    <<"access-control-expose-headers", 79, <<"content-length">>>>,
    <<"access-control-request-headers", 80, <<"content-type">>>>,
    <<"access-control-request-method", 81, <<"get", "post">>>>, <<"alt-svc", 83, <<"clear">>>>,
    <<"authorization", 84, <<"">>>>,
    <<"content-security-policy", 85, <<"script-src 'none'; object-src 'none'; base-uri 'none'">>>>,
    <<"early-data", 86, <<"1">>>>, <<"expect-ct", 87, <<"">>>>, <<"forwarded", 88, <<"">>>>,
    <<"if-range", 89, <<"">>>>, <<"origin", 90, <<"">>>>, <<"purpose", 91, <<"prefetch">>>>,
    <<"server", 92, <<"">>>>, <<"timing-allow-origin", 93, <<"*">>>>,
    <<"upgrade-insecure-requests", 94, <<"1">>>>, <<"user-agent", 95, <<"">>>>,
    <<"x-forwarded-for", 96, <<"">>>>, <<"x-frame-options", 97, <<"deny", "sameorigin">>>>>>

NotFound == -1

find(field) ==
  LET i == SelectInSeq(FindArms, LAMBDA arm : arm[1] = field[1] /\ Contains(arm[3], field[2]))
      arm == FindArms[i]
  IN IF i = 0 THEN NotFound ELSE arm[2] + SelectInSeq(arm[3], LAMBDA v : v = field[2]) - 1

NameArms ==
  <<<<":authority", 0>>, <<":path", 1>>, <<"age", 2>>, <<"content-disposition", 3>>,
    <<"content-length", 4>>, <<"cookie", 5>>, <<"date", 6>>, <<"etag", 7>>,
    <<"if-modified-since", 8>>, <<"if-none-match", 9>>, <<"last-modified", 10>>, <<"link", 11>>,
    <<"location", 12>>, <<"referer", 13>>, <<"set-cookie", 14>>, <<":method", 15>>,
    <<":scheme", 22>>, <<":status", 24>>, <<"accept", 29>>, <<"accept-encoding", 31>>,
    <<"accept-ranges", 32>>, <<"access-control-allow-headers", 33>>,
    <<"access-control-allow-origin", 35>>, <<"cache-control", 36>>, <<"content-encoding", 42>>,
    <<"content-type", 44>>, <<"range", 55>>, <<"strict-transport-security", 56>>, <<"vary", 59>>,
    <<"x-content-type-options", 61>>, <<"x-xss-protection", 62>>, <<"accept-language", 72>>,
    <<"access-control-allow-credentials", 73>>, <<"access-control-allow-methods", 76>>,
    <<"access-control-expose-headers", 79>>, <<"access-control-request-headers", 80>>,
    <<"access-control-request-method", 81>>, <<"alt-svc", 83>>, <<"authorization", 84>>,
    <<"content-security-policy", 85>>, <<"early-data", 86>>, <<"expect-ct", 87>>,
    <<"forwarded", 88>>, <<"if-range", 89>>, <<"origin", 90>>, <<"purpose", 91>>,
    <<"server", 92>>, <<"timing-allow-origin", 93>>, <<"upgrade-insecure-requests", 94>>,
    <<"user-agent", 95>>, <<"x-forwarded-for", 96>>, <<"x-frame-options", 97>>>>

find_name(name) ==
  LET i == SelectInSeq(NameArms, LAMBDA arm : arm[1] = name)
  IN IF i = 0 THEN NotFound ELSE NameArms[i][2]
=============================================================================
