---------------------------- MODULE NlsCodepages ----------------------------
(***************************************************************************)
(* The code pages of OS/2 (libunls):                                       *)
(* the two tables of each file.  charset2uni is the sequence of the        *)
(* Unicode characters of the bytes 0 to 255, 0 for one that has none; of   *)
(* page_uni2charset, a <<u, b, n>> says that the n characters from u on    *)
(* become the bytes from b on, and no other character has an entry.        *)
(***************************************************************************)
EXTENDS NlsRuns

cp437_charset2uni ==
  Ascii \o <<
    \hC7, \hFC, \hE9, \hE2, \hE4, \hE0, \hE5, \hE7, \hEA, \hEB, \hE8, \hEF, \hEE, \hEC, \hC4,
    \hC5, \hC9, \hE6, \hC6, \hF4, \hF6, \hF2, \hFB, \hF9, \hFF, \hD6, \hDC, \hA2, \hA3, \hA5,
    \h20A7, \h192, \hE1, \hED, \hF3, \hFA, \hF1, \hD1, \hAA, \hBA, \hBF, \h2310, \hAC, \hBD,
    \hBC, \hA1, \hAB, \hBB, \h2591, \h2592, \h2593, \h2502, \h2524, \h2561, \h2562, \h2556,
    \h2555, \h2563, \h2551, \h2557, \h255D, \h255C, \h255B, \h2510, \h2514, \h2534, \h252C,
    \h251C, \h2500, \h253C, \h255E, \h255F, \h255A, \h2554, \h2569, \h2566, \h2560, \h2550,
    \h256C, \h2567, \h2568, \h2564, \h2565, \h2559, \h2558, \h2552, \h2553, \h256B, \h256A,
    \h2518, \h250C, \h2588, \h2584, \h258C, \h2590, \h2580, \h3B1, \hDF, \h393, \h3C0, \h3A3,
    \h3C3, \hB5, \h3C4, \h3A6, \h398, \h3A9, \h3B4, \h221E, \h3C6, \h3B5, \h2229, \h2261, \hB1,
    \h2265, \h2264, \h2320, \h2321, \hF7, \h2248, \hB0, \h2219, \hB7, \h221A, \h207F, \hB2,
    \h25A0, \hA0 >>

cp437_uni2charset == <<
  <<0,0,128>>, <<\hA0,\hFF,1>>, <<\hA1,\hAD,1>>, <<\hA2,\h9B,2>>, <<\hA5,\h9D,1>>,
  <<\hAA,\hA6,1>>, <<\hAB,\hAE,1>>, <<\hAC,\hAA,1>>, <<\hB0,\hF8,1>>, <<\hB1,\hF1,1>>,
  <<\hB2,\hFD,1>>, <<\hB5,\hE6,1>>, <<\hB7,\hFA,1>>, <<\hBA,\hA7,1>>, <<\hBB,\hAF,1>>,
  <<\hBC,\hAC,1>>, <<\hBD,\hAB,1>>, <<\hBF,\hA8,1>>, <<\hC4,\h8E,2>>, <<\hC6,\h92,1>>,
  <<\hC7,\h80,1>>, <<\hC9,\h90,1>>, <<\hD1,\hA5,1>>, <<\hD6,\h99,1>>, <<\hDC,\h9A,1>>,
  <<\hDF,\hE1,1>>, <<\hE0,\h85,1>>, <<\hE1,\hA0,1>>, <<\hE2,\h83,1>>, <<\hE4,\h84,1>>,
  <<\hE5,\h86,1>>, <<\hE6,\h91,1>>, <<\hE7,\h87,1>>, <<\hE8,\h8A,1>>, <<\hE9,\h82,1>>,
  <<\hEA,\h88,2>>, <<\hEC,\h8D,1>>, <<\hED,\hA1,1>>, <<\hEE,\h8C,1>>, <<\hEF,\h8B,1>>,
  <<\hF1,\hA4,1>>, <<\hF2,\h95,1>>, <<\hF3,\hA2,1>>, <<\hF4,\h93,1>>, <<\hF6,\h94,1>>,
  <<\hF7,\hF6,1>>, <<\hF9,\h97,1>>, <<\hFA,\hA3,1>>, <<\hFB,\h96,1>>, <<\hFC,\h81,1>>,
  <<\hFF,\h98,1>>, <<\h192,\h9F,1>>, <<\h393,\hE2,1>>, <<\h398,\hE9,1>>, <<\h3A3,\hE4,1>>,
  <<\h3A6,\hE8,1>>, <<\h3A9,\hEA,1>>, <<\h3B1,\hE0,1>>, <<\h3B4,\hEB,1>>, <<\h3B5,\hEE,1>>,
  <<\h3C0,\hE3,1>>, <<\h3C3,\hE5,1>>, <<\h3C4,\hE7,1>>, <<\h3C6,\hED,1>>, <<\h207F,\hFC,1>>,
  <<\h20A7,\h9E,1>>, <<\h2219,\hF9,1>>, <<\h221A,\hFB,1>>, <<\h221E,\hEC,1>>, <<\h2229,\hEF,1>>,
  <<\h2248,\hF7,1>>, <<\h2261,\hF0,1>>, <<\h2264,\hF3,1>>, <<\h2265,\hF2,1>>, <<\h2310,\hA9,1>>,
  <<\h2320,\hF4,2>>, <<\h2500,\hC4,1>>, <<\h2502,\hB3,1>>, <<\h250C,\hDA,1>>, <<\h2510,\hBF,1>>,
  <<\h2514,\hC0,1>>, <<\h2518,\hD9,1>>, <<\h251C,\hC3,1>>, <<\h2524,\hB4,1>>, <<\h252C,\hC2,1>>,
  <<\h2534,\hC1,1>>, <<\h253C,\hC5,1>>, <<\h2550,\hCD,1>>, <<\h2551,\hBA,1>>, <<\h2552,\hD5,2>>,
  <<\h2554,\hC9,1>>, <<\h2555,\hB8,1>>, <<\h2556,\hB7,1>>, <<\h2557,\hBB,1>>, <<\h2558,\hD4,1>>,
  <<\h2559,\hD3,1>>, <<\h255A,\hC8,1>>, <<\h255B,\hBE,1>>, <<\h255C,\hBD,1>>, <<\h255D,\hBC,1>>,
  <<\h255E,\hC6,2>>, <<\h2560,\hCC,1>>, <<\h2561,\hB5,2>>, <<\h2563,\hB9,1>>, <<\h2564,\hD1,2>>,
  <<\h2566,\hCB,1>>, <<\h2567,\hCF,2>>, <<\h2569,\hCA,1>>, <<\h256A,\hD8,1>>, <<\h256B,\hD7,1>>,
  <<\h256C,\hCE,1>>, <<\h2580,\hDF,1>>, <<\h2584,\hDC,1>>, <<\h2588,\hDB,1>>, <<\h258C,\hDD,1>>,
  <<\h2590,\hDE,1>>, <<\h2591,\hB0,3>>, <<\h25A0,\hFE,1>> >>

cp737_charset2uni ==
  Ascii \o From(\h391, 17) \o From(\h3A3, 7) \o From(\h3B1, 17) \o <<
    \h3C3, \h3C2, \h3C4, \h3C5, \h3C6, \h3C7, \h3C8, \h2591, \h2592, \h2593, \h2502, \h2524,
    \h2561, \h2562, \h2556, \h2555, \h2563, \h2551, \h2557, \h255D, \h255C, \h255B, \h2510,
    \h2514, \h2534, \h252C, \h251C, \h2500, \h253C, \h255E, \h255F, \h255A, \h2554, \h2569,
    \h2566, \h2560, \h2550, \h256C, \h2567, \h2568, \h2564, \h2565, \h2559, \h2558, \h2552,
    \h2553, \h256B, \h256A, \h2518, \h250C, \h2588, \h2584, \h258C, \h2590, \h2580, \h3C9,
    \h3AC, \h3AD, \h3AE, \h3CA, \h3AF, \h3CC, \h3CD, \h3CB, \h3CE, \h386, \h388, \h389, \h38A,
    \h38C, \h38E, \h38F, \hB1, \h2265, \h2264, \h3AA, \h3AB, \hF7, \h2248, \hB0, \h2219, \hB7,
    \h221A, \h207F, \hB2, \h25A0, \hA0 >>

cp737_uni2charset == <<
  <<0,0,128>>, <<\hA0,\hFF,1>>, <<\hB0,\hF8,1>>, <<\hB1,\hF1,1>>, <<\hB2,\hFD,1>>,
  <<\hB7,\hFA,1>>, <<\hF7,\hF6,1>>, <<\h386,\hEA,1>>, <<\h388,\hEB,3>>, <<\h38C,\hEE,1>>,
  <<\h38E,\hEF,2>>, <<\h391,\h80,17>>, <<\h3A3,\h91,7>>, <<\h3AA,\hF4,2>>, <<\h3AC,\hE1,3>>,
  <<\h3AF,\hE5,1>>, <<\h3B1,\h98,17>>, <<\h3C2,\hAA,1>>, <<\h3C3,\hA9,1>>, <<\h3C4,\hAB,5>>,
  <<\h3C9,\hE0,1>>, <<\h3CA,\hE4,1>>, <<\h3CB,\hE8,1>>, <<\h3CC,\hE6,2>>, <<\h3CE,\hE9,1>>,
  <<\h207F,\hFC,1>>, <<\h2219,\hF9,1>>, <<\h221A,\hFB,1>>, <<\h2248,\hF7,1>>, <<\h2264,\hF3,1>>,
  <<\h2265,\hF2,1>>, <<\h2500,\hC4,1>>, <<\h2502,\hB3,1>>, <<\h250C,\hDA,1>>, <<\h2510,\hBF,1>>,
  <<\h2514,\hC0,1>>, <<\h2518,\hD9,1>>, <<\h251C,\hC3,1>>, <<\h2524,\hB4,1>>, <<\h252C,\hC2,1>>,
  <<\h2534,\hC1,1>>, <<\h253C,\hC5,1>>, <<\h2550,\hCD,1>>, <<\h2551,\hBA,1>>, <<\h2552,\hD5,2>>,
  <<\h2554,\hC9,1>>, <<\h2555,\hB8,1>>, <<\h2556,\hB7,1>>, <<\h2557,\hBB,1>>, <<\h2558,\hD4,1>>,
  <<\h2559,\hD3,1>>, <<\h255A,\hC8,1>>, <<\h255B,\hBE,1>>, <<\h255C,\hBD,1>>, <<\h255D,\hBC,1>>,
  <<\h255E,\hC6,2>>, <<\h2560,\hCC,1>>, <<\h2561,\hB5,2>>, <<\h2563,\hB9,1>>, <<\h2564,\hD1,2>>,
  <<\h2566,\hCB,1>>, <<\h2567,\hCF,2>>, <<\h2569,\hCA,1>>, <<\h256A,\hD8,1>>, <<\h256B,\hD7,1>>,
  <<\h256C,\hCE,1>>, <<\h2580,\hDF,1>>, <<\h2584,\hDC,1>>, <<\h2588,\hDB,1>>, <<\h258C,\hDD,1>>,
  <<\h2590,\hDE,1>>, <<\h2591,\hB0,3>>, <<\h25A0,\hFE,1>> >>

cp775_charset2uni ==
  Ascii \o <<
    \h106, \hFC, \hE9, \h101, \hE4, \h123, \hE5, \h107, \h142, \h113, \h156, \h157, \h12B,
    \h179, \hC4, \hC5, \hC9, \hE6, \hC6, \h14D, \hF6, \h122, \hA2, \h15A, \h15B, \hD6, \hDC,
    \hF8, \hA3, \hD8, \hD7, \hA4, \h100, \h12A, \hF3, \h17B, \h17C, \h17A, \h201D, \hA6, \hA9,
    \hAE, \hAC, \hBD, \hBC, \h141, \hAB, \hBB, \h2591, \h2592, \h2593, \h2502, \h2524, \h104,
    \h10C, \h118, \h116, \h2563, \h2551, \h2557, \h255D, \h12E, \h160, \h2510, \h2514, \h2534,
    \h252C, \h251C, \h2500, \h253C, \h172, \h16A, \h255A, \h2554, \h2569, \h2566, \h2560,
    \h2550, \h256C, \h17D, \h105, \h10D, \h119, \h117, \h12F, \h161, \h173, \h16B, \h17E,
    \h2518, \h250C, \h2588, \h2584, \h258C, \h2590, \h2580, \hD3, \hDF, \h14C, \h143, \hF5,
    \hD5, \hB5, \h144, \h136, \h137, \h13B, \h13C, \h146, \h112, \h145, \h2019, \hAD, \hB1,
    \h201C, \hBE, \hB6, \hA7, \hF7, \h201E, \hB0, \h2219, \hB7, \hB9, \hB3, \hB2, \h25A0, \hA0 >>

cp775_uni2charset == <<
  <<0,0,128>>, <<\hA0,\hFF,1>>, <<\hA2,\h96,1>>, <<\hA3,\h9C,1>>, <<\hA4,\h9F,1>>,
  <<\hA6,\hA7,1>>, <<\hA7,\hF5,1>>, <<\hA9,\hA8,1>>, <<\hAB,\hAE,1>>, <<\hAC,\hAA,1>>,
  <<\hAD,\hF0,1>>, <<\hAE,\hA9,1>>, <<\hB0,\hF8,1>>, <<\hB1,\hF1,1>>, <<\hB2,\hFD,1>>,
  <<\hB3,\hFC,1>>, <<\hB5,\hE6,1>>, <<\hB6,\hF4,1>>, <<\hB7,\hFA,1>>, <<\hB9,\hFB,1>>,
  <<\hBB,\hAF,1>>, <<\hBC,\hAC,1>>, <<\hBD,\hAB,1>>, <<\hBE,\hF3,1>>, <<\hC4,\h8E,2>>,
  <<\hC6,\h92,1>>, <<\hC9,\h90,1>>, <<\hD3,\hE0,1>>, <<\hD5,\hE5,1>>, <<\hD6,\h99,1>>,
  <<\hD7,\h9E,1>>, <<\hD8,\h9D,1>>, <<\hDC,\h9A,1>>, <<\hDF,\hE1,1>>, <<\hE4,\h84,1>>,
  <<\hE5,\h86,1>>, <<\hE6,\h91,1>>, <<\hE9,\h82,1>>, <<\hF3,\hA2,1>>, <<\hF5,\hE4,1>>,
  <<\hF6,\h94,1>>, <<\hF7,\hF6,1>>, <<\hF8,\h9B,1>>, <<\hFC,\h81,1>>, <<\h100,\hA0,1>>,
  <<\h101,\h83,1>>, <<\h104,\hB5,1>>, <<\h105,\hD0,1>>, <<\h106,\h80,1>>, <<\h107,\h87,1>>,
  <<\h10C,\hB6,1>>, <<\h10D,\hD1,1>>, <<\h112,\hED,1>>, <<\h113,\h89,1>>, <<\h116,\hB8,1>>,
  <<\h117,\hD3,1>>, <<\h118,\hB7,1>>, <<\h119,\hD2,1>>, <<\h122,\h95,1>>, <<\h123,\h85,1>>,
  <<\h12A,\hA1,1>>, <<\h12B,\h8C,1>>, <<\h12E,\hBD,1>>, <<\h12F,\hD4,1>>, <<\h136,\hE8,2>>,
  <<\h13B,\hEA,2>>, <<\h141,\hAD,1>>, <<\h142,\h88,1>>, <<\h143,\hE3,1>>, <<\h144,\hE7,1>>,
  <<\h145,\hEE,1>>, <<\h146,\hEC,1>>, <<\h14C,\hE2,1>>, <<\h14D,\h93,1>>, <<\h156,\h8A,2>>,
  <<\h15A,\h97,2>>, <<\h160,\hBE,1>>, <<\h161,\hD5,1>>, <<\h16A,\hC7,1>>, <<\h16B,\hD7,1>>,
  <<\h172,\hC6,1>>, <<\h173,\hD6,1>>, <<\h179,\h8D,1>>, <<\h17A,\hA5,1>>, <<\h17B,\hA3,2>>,
  <<\h17D,\hCF,1>>, <<\h17E,\hD8,1>>, <<\h2019,\hEF,1>>, <<\h201C,\hF2,1>>, <<\h201D,\hA6,1>>,
  <<\h201E,\hF7,1>>, <<\h2219,\hF9,1>>, <<\h2500,\hC4,1>>, <<\h2502,\hB3,1>>, <<\h250C,\hDA,1>>,
  <<\h2510,\hBF,1>>, <<\h2514,\hC0,1>>, <<\h2518,\hD9,1>>, <<\h251C,\hC3,1>>, <<\h2524,\hB4,1>>,
  <<\h252C,\hC2,1>>, <<\h2534,\hC1,1>>, <<\h253C,\hC5,1>>, <<\h2550,\hCD,1>>, <<\h2551,\hBA,1>>,
  <<\h2554,\hC9,1>>, <<\h2557,\hBB,1>>, <<\h255A,\hC8,1>>, <<\h255D,\hBC,1>>, <<\h2560,\hCC,1>>,
  <<\h2563,\hB9,1>>, <<\h2566,\hCB,1>>, <<\h2569,\hCA,1>>, <<\h256C,\hCE,1>>, <<\h2580,\hDF,1>>,
  <<\h2584,\hDC,1>>, <<\h2588,\hDB,1>>, <<\h258C,\hDD,1>>, <<\h2590,\hDE,1>>, <<\h2591,\hB0,3>>,
  <<\h25A0,\hFE,1>> >>

cp850_charset2uni ==
  Ascii \o <<
    \hC7, \hFC, \hE9, \hE2, \hE4, \hE0, \hE5, \hE7, \hEA, \hEB, \hE8, \hEF, \hEE, \hEC, \hC4,
    \hC5, \hC9, \hE6, \hC6, \hF4, \hF6, \hF2, \hFB, \hF9, \hFF, \hD6, \hDC, \hF8, \hA3, \hD8,
    \hD7, \h192, \hE1, \hED, \hF3, \hFA, \hF1, \hD1, \hAA, \hBA, \hBF, \hAE, \hAC, \hBD, \hBC,
    \hA1, \hAB, \hBB, \h2591, \h2592, \h2593, \h2502, \h2524, \hC1, \hC2, \hC0, \hA9, \h2563,
    \h2551, \h2557, \h255D, \hA2, \hA5, \h2510, \h2514, \h2534, \h252C, \h251C, \h2500, \h253C,
    \hE3, \hC3, \h255A, \h2554, \h2569, \h2566, \h2560, \h2550, \h256C, \hA4, \hF0, \hD0, \hCA,
    \hCB, \hC8, \h131, \hCD, \hCE, \hCF, \h2518, \h250C, \h2588, \h2584, \hA6, \hCC, \h2580,
    \hD3, \hDF, \hD4, \hD2, \hF5, \hD5, \hB5, \hFE, \hDE, \hDA, \hDB, \hD9, \hFD, \hDD, \hAF,
    \hB4, \hAD, \hB1, \h2017, \hBE, \hB6, \hA7, \hF7, \hB8, \hB0, \hA8, \hB7, \hB9, \hB3, \hB2,
    \h25A0, \hA0 >>

cp850_uni2charset == <<
  <<0,0,128>>, <<\hA0,\hFF,1>>, <<\hA1,\hAD,1>>, <<\hA2,\hBD,1>>, <<\hA3,\h9C,1>>,
  <<\hA4,\hCF,1>>, <<\hA5,\hBE,1>>, <<\hA6,\hDD,1>>, <<\hA7,\hF5,1>>, <<\hA8,\hF9,1>>,
  <<\hA9,\hB8,1>>, <<\hAA,\hA6,1>>, <<\hAB,\hAE,1>>, <<\hAC,\hAA,1>>, <<\hAD,\hF0,1>>,
  <<\hAE,\hA9,1>>, <<\hAF,\hEE,1>>, <<\hB0,\hF8,1>>, <<\hB1,\hF1,1>>, <<\hB2,\hFD,1>>,
  <<\hB3,\hFC,1>>, <<\hB4,\hEF,1>>, <<\hB5,\hE6,1>>, <<\hB6,\hF4,1>>, <<\hB7,\hFA,1>>,
  <<\hB8,\hF7,1>>, <<\hB9,\hFB,1>>, <<\hBA,\hA7,1>>, <<\hBB,\hAF,1>>, <<\hBC,\hAC,1>>,
  <<\hBD,\hAB,1>>, <<\hBE,\hF3,1>>, <<\hBF,\hA8,1>>, <<\hC0,\hB7,1>>, <<\hC1,\hB5,2>>,
  <<\hC3,\hC7,1>>, <<\hC4,\h8E,2>>, <<\hC6,\h92,1>>, <<\hC7,\h80,1>>, <<\hC8,\hD4,1>>,
  <<\hC9,\h90,1>>, <<\hCA,\hD2,2>>, <<\hCC,\hDE,1>>, <<\hCD,\hD6,3>>, <<\hD0,\hD1,1>>,
  <<\hD1,\hA5,1>>, <<\hD2,\hE3,1>>, <<\hD3,\hE0,1>>, <<\hD4,\hE2,1>>, <<\hD5,\hE5,1>>,
  <<\hD6,\h99,1>>, <<\hD7,\h9E,1>>, <<\hD8,\h9D,1>>, <<\hD9,\hEB,1>>, <<\hDA,\hE9,2>>,
  <<\hDC,\h9A,1>>, <<\hDD,\hED,1>>, <<\hDE,\hE8,1>>, <<\hDF,\hE1,1>>, <<\hE0,\h85,1>>,
  <<\hE1,\hA0,1>>, <<\hE2,\h83,1>>, <<\hE3,\hC6,1>>, <<\hE4,\h84,1>>, <<\hE5,\h86,1>>,
  <<\hE6,\h91,1>>, <<\hE7,\h87,1>>, <<\hE8,\h8A,1>>, <<\hE9,\h82,1>>, <<\hEA,\h88,2>>,
  <<\hEC,\h8D,1>>, <<\hED,\hA1,1>>, <<\hEE,\h8C,1>>, <<\hEF,\h8B,1>>, <<\hF0,\hD0,1>>,
  <<\hF1,\hA4,1>>, <<\hF2,\h95,1>>, <<\hF3,\hA2,1>>, <<\hF4,\h93,1>>, <<\hF5,\hE4,1>>,
  <<\hF6,\h94,1>>, <<\hF7,\hF6,1>>, <<\hF8,\h9B,1>>, <<\hF9,\h97,1>>, <<\hFA,\hA3,1>>,
  <<\hFB,\h96,1>>, <<\hFC,\h81,1>>, <<\hFD,\hEC,1>>, <<\hFE,\hE7,1>>, <<\hFF,\h98,1>>,
  <<\h131,\hD5,1>>, <<\h192,\h9F,1>>, <<\h2017,\hF2,1>>, <<\h2500,\hC4,1>>, <<\h2502,\hB3,1>>,
  <<\h250C,\hDA,1>>, <<\h2510,\hBF,1>>, <<\h2514,\hC0,1>>, <<\h2518,\hD9,1>>, <<\h251C,\hC3,1>>,
  <<\h2524,\hB4,1>>, <<\h252C,\hC2,1>>, <<\h2534,\hC1,1>>, <<\h253C,\hC5,1>>, <<\h2550,\hCD,1>>,
  <<\h2551,\hBA,1>>, <<\h2554,\hC9,1>>, <<\h2557,\hBB,1>>, <<\h255A,\hC8,1>>, <<\h255D,\hBC,1>>,
  <<\h2560,\hCC,1>>, <<\h2563,\hB9,1>>, <<\h2566,\hCB,1>>, <<\h2569,\hCA,1>>, <<\h256C,\hCE,1>>,
  <<\h2580,\hDF,1>>, <<\h2584,\hDC,1>>, <<\h2588,\hDB,1>>, <<\h2591,\hB0,3>>, <<\h25A0,\hFE,1>> >>

cp852_charset2uni ==
  Ascii \o <<
    \hC7, \hFC, \hE9, \hE2, \hE4, \h16F, \h107, \hE7, \h142, \hEB, \h150, \h151, \hEE, \h179,
    \hC4, \h106, \hC9, \h139, \h13A, \hF4, \hF6, \h13D, \h13E, \h15A, \h15B, \hD6, \hDC, \h164,
    \h165, \h141, \hD7, \h10D, \hE1, \hED, \hF3, \hFA, \h104, \h105, \h17D, \h17E, \h118, \h119,
    \hAC, \h17A, \h10C, \h15F, \hAB, \hBB, \h2591, \h2592, \h2593, \h2502, \h2524, \hC1, \hC2,
    \h11A, \h15E, \h2563, \h2551, \h2557, \h255D, \h17B, \h17C, \h2510, \h2514, \h2534, \h252C,
    \h251C, \h2500, \h253C, \h102, \h103, \h255A, \h2554, \h2569, \h2566, \h2560, \h2550,
    \h256C, \hA4, \h111, \h110, \h10E, \hCB, \h10F, \h147, \hCD, \hCE, \h11B, \h2518, \h250C,
    \h2588, \h2584, \h162, \h16E, \h2580, \hD3, \hDF, \hD4, \h143, \h144, \h148, \h160, \h161,
    \h154, \hDA, \h155, \h170, \hFD, \hDD, \h163, \hB4, \hAD, \h2DD, \h2DB, \h2C7, \h2D8, \hA7,
    \hF7, \hB8, \hB0, \hA8, \h2D9, \h171, \h158, \h159, \h25A0, \hA0 >>

cp852_uni2charset == <<
  <<0,0,128>>, <<\hA0,\hFF,1>>, <<\hA4,\hCF,1>>, <<\hA7,\hF5,1>>, <<\hA8,\hF9,1>>,
  <<\hAB,\hAE,1>>, <<\hAC,\hAA,1>>, <<\hAD,\hF0,1>>, <<\hB0,\hF8,1>>, <<\hB4,\hEF,1>>,
  <<\hB8,\hF7,1>>, <<\hBB,\hAF,1>>, <<\hC1,\hB5,2>>, <<\hC4,\h8E,1>>, <<\hC7,\h80,1>>,
  <<\hC9,\h90,1>>, <<\hCB,\hD3,1>>, <<\hCD,\hD6,2>>, <<\hD3,\hE0,1>>, <<\hD4,\hE2,1>>,
  <<\hD6,\h99,1>>, <<\hD7,\h9E,1>>, <<\hDA,\hE9,1>>, <<\hDC,\h9A,1>>, <<\hDD,\hED,1>>,
  <<\hDF,\hE1,1>>, <<\hE1,\hA0,1>>, <<\hE2,\h83,1>>, <<\hE4,\h84,1>>, <<\hE7,\h87,1>>,
  <<\hE9,\h82,1>>, <<\hEB,\h89,1>>, <<\hED,\hA1,1>>, <<\hEE,\h8C,1>>, <<\hF3,\hA2,1>>,
  <<\hF4,\h93,1>>, <<\hF6,\h94,1>>, <<\hF7,\hF6,1>>, <<\hFA,\hA3,1>>, <<\hFC,\h81,1>>,
  <<\hFD,\hEC,1>>, <<\h102,\hC6,2>>, <<\h104,\hA4,2>>, <<\h106,\h8F,1>>, <<\h107,\h86,1>>,
  <<\h10C,\hAC,1>>, <<\h10D,\h9F,1>>, <<\h10E,\hD2,1>>, <<\h10F,\hD4,1>>, <<\h110,\hD1,1>>,
  <<\h111,\hD0,1>>, <<\h118,\hA8,2>>, <<\h11A,\hB7,1>>, <<\h11B,\hD8,1>>, <<\h139,\h91,2>>,
  <<\h13D,\h95,2>>, <<\h141,\h9D,1>>, <<\h142,\h88,1>>, <<\h143,\hE3,2>>, <<\h147,\hD5,1>>,
  <<\h148,\hE5,1>>, <<\h150,\h8A,2>>, <<\h154,\hE8,1>>, <<\h155,\hEA,1>>, <<\h158,\hFC,2>>,
  <<\h15A,\h97,2>>, <<\h15E,\hB8,1>>, <<\h15F,\hAD,1>>, <<\h160,\hE6,2>>, <<\h162,\hDD,1>>,
  <<\h163,\hEE,1>>, <<\h164,\h9B,2>>, <<\h16E,\hDE,1>>, <<\h16F,\h85,1>>, <<\h170,\hEB,1>>,
  <<\h171,\hFB,1>>, <<\h179,\h8D,1>>, <<\h17A,\hAB,1>>, <<\h17B,\hBD,2>>, <<\h17D,\hA6,2>>,
  <<\h2C7,\hF3,1>>, <<\h2D8,\hF4,1>>, <<\h2D9,\hFA,1>>, <<\h2DB,\hF2,1>>, <<\h2DD,\hF1,1>>,
  <<\h2500,\hC4,1>>, <<\h2502,\hB3,1>>, <<\h250C,\hDA,1>>, <<\h2510,\hBF,1>>, <<\h2514,\hC0,1>>,
  <<\h2518,\hD9,1>>, <<\h251C,\hC3,1>>, <<\h2524,\hB4,1>>, <<\h252C,\hC2,1>>, <<\h2534,\hC1,1>>,
  <<\h253C,\hC5,1>>, <<\h2550,\hCD,1>>, <<\h2551,\hBA,1>>, <<\h2554,\hC9,1>>, <<\h2557,\hBB,1>>,
  <<\h255A,\hC8,1>>, <<\h255D,\hBC,1>>, <<\h2560,\hCC,1>>, <<\h2563,\hB9,1>>, <<\h2566,\hCB,1>>,
  <<\h2569,\hCA,1>>, <<\h256C,\hCE,1>>, <<\h2580,\hDF,1>>, <<\h2584,\hDC,1>>, <<\h2588,\hDB,1>>,
  <<\h2591,\hB0,3>>, <<\h25A0,\hFE,1>> >>

cp855_charset2uni ==
  Ascii \o <<
    \h452, \h402, \h453, \h403, \h451, \h401, \h454, \h404, \h455, \h405, \h456, \h406, \h457,
    \h407, \h458, \h408, \h459, \h409, \h45A, \h40A, \h45B, \h40B, \h45C, \h40C, \h45E, \h40E,
    \h45F, \h40F, \h44E, \h42E, \h44A, \h42A, \h430, \h410, \h431, \h411, \h446, \h426, \h434,
    \h414, \h435, \h415, \h444, \h424, \h433, \h413, \hAB, \hBB, \h2591, \h2592, \h2593, \h2502,
    \h2524, \h445, \h425, \h438, \h418, \h2563, \h2551, \h2557, \h255D, \h439, \h419, \h2510,
    \h2514, \h2534, \h252C, \h251C, \h2500, \h253C, \h43A, \h41A, \h255A, \h2554, \h2569,
    \h2566, \h2560, \h2550, \h256C, \hA4, \h43B, \h41B, \h43C, \h41C, \h43D, \h41D, \h43E,
    \h41E, \h43F, \h2518, \h250C, \h2588, \h2584, \h41F, \h44F, \h2580, \h42F, \h440, \h420,
    \h441, \h421, \h442, \h422, \h443, \h423, \h436, \h416, \h432, \h412, \h44C, \h42C, \h2116,
    \hAD, \h44B, \h42B, \h437, \h417, \h448, \h428, \h44D, \h42D, \h449, \h429, \h447, \h427,
    \hA7, \h25A0, \hA0 >>

cp855_uni2charset == <<
  <<0,0,128>>, <<\hA0,\hFF,1>>, <<\hA4,\hCF,1>>, <<\hA7,\hFD,1>>, <<\hAB,\hAE,1>>,
  <<\hAD,\hF0,1>>, <<\hBB,\hAF,1>>, <<\h401,\h85,1>>, <<\h402,\h81,1>>, <<\h403,\h83,1>>,
  <<\h404,\h87,1>>, <<\h405,\h89,1>>, <<\h406,\h8B,1>>, <<\h407,\h8D,1>>, <<\h408,\h8F,1>>,
  <<\h409,\h91,1>>, <<\h40A,\h93,1>>, <<\h40B,\h95,1>>, <<\h40C,\h97,1>>, <<\h40E,\h99,1>>,
  <<\h40F,\h9B,1>>, <<\h410,\hA1,1>>, <<\h411,\hA3,1>>, <<\h412,\hEC,1>>, <<\h413,\hAD,1>>,
  <<\h414,\hA7,1>>, <<\h415,\hA9,1>>, <<\h416,\hEA,1>>, <<\h417,\hF4,1>>, <<\h418,\hB8,1>>,
  <<\h419,\hBE,1>>, <<\h41A,\hC7,1>>, <<\h41B,\hD1,1>>, <<\h41C,\hD3,1>>, <<\h41D,\hD5,1>>,
  <<\h41E,\hD7,1>>, <<\h41F,\hDD,1>>, <<\h420,\hE2,1>>, <<\h421,\hE4,1>>, <<\h422,\hE6,1>>,
  <<\h423,\hE8,1>>, <<\h424,\hAB,1>>, <<\h425,\hB6,1>>, <<\h426,\hA5,1>>, <<\h427,\hFC,1>>,
  <<\h428,\hF6,1>>, <<\h429,\hFA,1>>, <<\h42A,\h9F,1>>, <<\h42B,\hF2,1>>, <<\h42C,\hEE,1>>,
  <<\h42D,\hF8,1>>, <<\h42E,\h9D,1>>, <<\h42F,\hE0,1>>, <<\h430,\hA0,1>>, <<\h431,\hA2,1>>,
  <<\h432,\hEB,1>>, <<\h433,\hAC,1>>, <<\h434,\hA6,1>>, <<\h435,\hA8,1>>, <<\h436,\hE9,1>>,
  <<\h437,\hF3,1>>, <<\h438,\hB7,1>>, <<\h439,\hBD,1>>, <<\h43A,\hC6,1>>, <<\h43B,\hD0,1>>,
  <<\h43C,\hD2,1>>, <<\h43D,\hD4,1>>, <<\h43E,\hD6,1>>, <<\h43F,\hD8,1>>, <<\h440,\hE1,1>>,
  <<\h441,\hE3,1>>, <<\h442,\hE5,1>>, <<\h443,\hE7,1>>, <<\h444,\hAA,1>>, <<\h445,\hB5,1>>,
  <<\h446,\hA4,1>>, <<\h447,\hFB,1>>, <<\h448,\hF5,1>>, <<\h449,\hF9,1>>, <<\h44A,\h9E,1>>,
  <<\h44B,\hF1,1>>, <<\h44C,\hED,1>>, <<\h44D,\hF7,1>>, <<\h44E,\h9C,1>>, <<\h44F,\hDE,1>>,
  <<\h451,\h84,1>>, <<\h452,\h80,1>>, <<\h453,\h82,1>>, <<\h454,\h86,1>>, <<\h455,\h88,1>>,
  <<\h456,\h8A,1>>, <<\h457,\h8C,1>>, <<\h458,\h8E,1>>, <<\h459,\h90,1>>, <<\h45A,\h92,1>>,
  <<\h45B,\h94,1>>, <<\h45C,\h96,1>>, <<\h45E,\h98,1>>, <<\h45F,\h9A,1>>, <<\h2116,\hEF,1>>,
  <<\h2500,\hC4,1>>, <<\h2502,\hB3,1>>, <<\h250C,\hDA,1>>, <<\h2510,\hBF,1>>, <<\h2514,\hC0,1>>,
  <<\h2518,\hD9,1>>, <<\h251C,\hC3,1>>, <<\h2524,\hB4,1>>, <<\h252C,\hC2,1>>, <<\h2534,\hC1,1>>,
  <<\h253C,\hC5,1>>, <<\h2550,\hCD,1>>, <<\h2551,\hBA,1>>, <<\h2554,\hC9,1>>, <<\h2557,\hBB,1>>,
  <<\h255A,\hC8,1>>, <<\h255D,\hBC,1>>, <<\h2560,\hCC,1>>, <<\h2563,\hB9,1>>, <<\h2566,\hCB,1>>,
  <<\h2569,\hCA,1>>, <<\h256C,\hCE,1>>, <<\h2580,\hDF,1>>, <<\h2584,\hDC,1>>, <<\h2588,\hDB,1>>,
  <<\h2591,\hB0,3>>, <<\h25A0,\hFE,1>> >>

cp857_charset2uni ==
  Ascii \o <<
    \hC7, \hFC, \hE9, \hE2, \hE4, \hE0, \hE5, \hE7, \hEA, \hEB, \hE8, \hEF, \hEE, \h131, \hC4,
    \hC5, \hC9, \hE6, \hC6, \hF4, \hF6, \hF2, \hFB, \hF9, \h130, \hD6, \hDC, \hF8, \hA3, \hD8,
    \h15E, \h15F, \hE1, \hED, \hF3, \hFA, \hF1, \hD1, \h11E, \h11F, \hBF, \hAE, \hAC, \hBD,
    \hBC, \hA1, \hAB, \hBB, \h2591, \h2592, \h2593, \h2502, \h2524, \hC1, \hC2, \hC0, \hA9,
    \h2563, \h2551, \h2557, \h255D, \hA2, \hA5, \h2510, \h2514, \h2534, \h252C, \h251C, \h2500,
    \h253C, \hE3, \hC3, \h255A, \h2554, \h2569, \h2566, \h2560, \h2550, \h256C, \hA4, \hBA,
    \hAA, \hCA, \hCB, \hC8, 0, \hCD, \hCE, \hCF, \h2518, \h250C, \h2588, \h2584, \hA6, \hCC,
    \h2580, \hD3, \hDF, \hD4, \hD2, \hF5, \hD5, \hB5, 0, \hD7, \hDA, \hDB, \hD9, \hEC, \hFF,
    \hAF, \hB4, \hAD, \hB1, 0, \hBE, \hB6, \hA7, \hF7, \hB8, \hB0, \hA8, \hB7, \hB9, \hB3, \hB2,
    \h25A0, \hA0 >>

cp857_uni2charset == <<
  <<0,0,128>>, <<\hA0,\hFF,1>>, <<\hA1,\hAD,1>>, <<\hA2,\hBD,1>>, <<\hA3,\h9C,1>>,
  <<\hA4,\hCF,1>>, <<\hA5,\hBE,1>>, <<\hA6,\hDD,1>>, <<\hA7,\hF5,1>>, <<\hA8,\hF9,1>>,
  <<\hA9,\hB8,1>>, <<\hAA,\hD1,1>>, <<\hAB,\hAE,1>>, <<\hAC,\hAA,1>>, <<\hAD,\hF0,1>>,
  <<\hAE,\hA9,1>>, <<\hAF,\hEE,1>>, <<\hB0,\hF8,1>>, <<\hB1,\hF1,1>>, <<\hB2,\hFD,1>>,
  <<\hB3,\hFC,1>>, <<\hB4,\hEF,1>>, <<\hB5,\hE6,1>>, <<\hB6,\hF4,1>>, <<\hB7,\hFA,1>>,
  <<\hB8,\hF7,1>>, <<\hB9,\hFB,1>>, <<\hBA,\hD0,1>>, <<\hBB,\hAF,1>>, <<\hBC,\hAC,1>>,
  <<\hBD,\hAB,1>>, <<\hBE,\hF3,1>>, <<\hBF,\hA8,1>>, <<\hC0,\hB7,1>>, <<\hC1,\hB5,2>>,
  <<\hC3,\hC7,1>>, <<\hC4,\h8E,2>>, <<\hC6,\h92,1>>, <<\hC7,\h80,1>>, <<\hC8,\hD4,1>>,
  <<\hC9,\h90,1>>, <<\hCA,\hD2,2>>, <<\hCC,\hDE,1>>, <<\hCD,\hD6,3>>, <<\hD1,\hA5,1>>,
  <<\hD2,\hE3,1>>, <<\hD3,\hE0,1>>, <<\hD4,\hE2,1>>, <<\hD5,\hE5,1>>, <<\hD6,\h99,1>>,
  <<\hD7,\hE8,1>>, <<\hD8,\h9D,1>>, <<\hD9,\hEB,1>>, <<\hDA,\hE9,2>>, <<\hDC,\h9A,1>>,
  <<\hDF,\hE1,1>>, <<\hE0,\h85,1>>, <<\hE1,\hA0,1>>, <<\hE2,\h83,1>>, <<\hE3,\hC6,1>>,
  <<\hE4,\h84,1>>, <<\hE5,\h86,1>>, <<\hE6,\h91,1>>, <<\hE7,\h87,1>>, <<\hE8,\h8A,1>>,
  <<\hE9,\h82,1>>, <<\hEA,\h88,2>>, <<\hEC,\hEC,1>>, <<\hED,\hA1,1>>, <<\hEE,\h8C,1>>,
  <<\hEF,\h8B,1>>, <<\hF1,\hA4,1>>, <<\hF2,\h95,1>>, <<\hF3,\hA2,1>>, <<\hF4,\h93,1>>,
  <<\hF5,\hE4,1>>, <<\hF6,\h94,1>>, <<\hF7,\hF6,1>>, <<\hF8,\h9B,1>>, <<\hF9,\h97,1>>,
  <<\hFA,\hA3,1>>, <<\hFB,\h96,1>>, <<\hFC,\h81,1>>, <<\hFF,\hED,1>>, <<\h11E,\hA6,2>>,
  <<\h130,\h98,1>>, <<\h131,\h8D,1>>, <<\h15E,\h9E,2>>, <<\h2500,\hC4,1>>, <<\h2502,\hB3,1>>,
  <<\h250C,\hDA,1>>, <<\h2510,\hBF,1>>, <<\h2514,\hC0,1>>, <<\h2518,\hD9,1>>, <<\h251C,\hC3,1>>,
  <<\h2524,\hB4,1>>, <<\h252C,\hC2,1>>, <<\h2534,\hC1,1>>, <<\h253C,\hC5,1>>, <<\h2550,\hCD,1>>,
  <<\h2551,\hBA,1>>, <<\h2554,\hC9,1>>, <<\h2557,\hBB,1>>, <<\h255A,\hC8,1>>, <<\h255D,\hBC,1>>,
  <<\h2560,\hCC,1>>, <<\h2563,\hB9,1>>, <<\h2566,\hCB,1>>, <<\h2569,\hCA,1>>, <<\h256C,\hCE,1>>,
  <<\h2580,\hDF,1>>, <<\h2584,\hDC,1>>, <<\h2588,\hDB,1>>, <<\h2591,\hB0,3>>, <<\h25A0,\hFE,1>> >>

cp860_charset2uni ==
  Ascii \o <<
    \hC7, \hFC, \hE9, \hE2, \hE3, \hE0, \hC1, \hE7, \hEA, \hCA, \hE8, \hCD, \hD4, \hEC, \hC3,
    \hC2, \hC9, \hC0, \hC8, \hF4, \hF5, \hF2, \hDA, \hF9, \hCC, \hD5, \hDC, \hA2, \hA3, \hD9,
    \h20A7, \hD3, \hE1, \hED, \hF3, \hFA, \hF1, \hD1, \hAA, \hBA, \hBF, \hD2, \hAC, \hBD, \hBC,
    \hA1, \hAB, \hBB, \h2591, \h2592, \h2593, \h2502, \h2524, \h2561, \h2562, \h2556, \h2555,
    \h2563, \h2551, \h2557, \h255D, \h255C, \h255B, \h2510, \h2514, \h2534, \h252C, \h251C,
    \h2500, \h253C, \h255E, \h255F, \h255A, \h2554, \h2569, \h2566, \h2560, \h2550, \h256C,
    \h2567, \h2568, \h2564, \h2565, \h2559, \h2558, \h2552, \h2553, \h256B, \h256A, \h2518,
    \h250C, \h2588, \h2584, \h258C, \h2590, \h2580, \h3B1, \hDF, \h393, \h3C0, \h3A3, \h3C3,
    \hB5, \h3C4, \h3A6, \h398, \h3A9, \h3B4, \h221E, \h3C6, \h3B5, \h2229, \h2261, \hB1, \h2265,
    \h2264, \h2320, \h2321, \hF7, \h2248, \hB0, \h2219, \hB7, \h221A, \h207F, \hB2, \h25A0, \hA0 >>

cp860_uni2charset == <<
  <<0,0,128>>, <<\hA0,\hFF,1>>, <<\hA1,\hAD,1>>, <<\hA2,\h9B,2>>, <<\hAA,\hA6,1>>,
  <<\hAB,\hAE,1>>, <<\hAC,\hAA,1>>, <<\hB0,\hF8,1>>, <<\hB1,\hF1,1>>, <<\hB2,\hFD,1>>,
  <<\hB5,\hE6,1>>, <<\hB7,\hFA,1>>, <<\hBA,\hA7,1>>, <<\hBB,\hAF,1>>, <<\hBC,\hAC,1>>,
  <<\hBD,\hAB,1>>, <<\hBF,\hA8,1>>, <<\hC0,\h91,1>>, <<\hC1,\h86,1>>, <<\hC2,\h8F,1>>,
  <<\hC3,\h8E,1>>, <<\hC7,\h80,1>>, <<\hC8,\h92,1>>, <<\hC9,\h90,1>>, <<\hCA,\h89,1>>,
  <<\hCC,\h98,1>>, <<\hCD,\h8B,1>>, <<\hD1,\hA5,1>>, <<\hD2,\hA9,1>>, <<\hD3,\h9F,1>>,
  <<\hD4,\h8C,1>>, <<\hD5,\h99,1>>, <<\hD9,\h9D,1>>, <<\hDA,\h96,1>>, <<\hDC,\h9A,1>>,
  <<\hDF,\hE1,1>>, <<\hE0,\h85,1>>, <<\hE1,\hA0,1>>, <<\hE2,\h83,2>>, <<\hE7,\h87,1>>,
  <<\hE8,\h8A,1>>, <<\hE9,\h82,1>>, <<\hEA,\h88,1>>, <<\hEC,\h8D,1>>, <<\hED,\hA1,1>>,
  <<\hF1,\hA4,1>>, <<\hF2,\h95,1>>, <<\hF3,\hA2,1>>, <<\hF4,\h93,2>>, <<\hF7,\hF6,1>>,
  <<\hF9,\h97,1>>, <<\hFA,\hA3,1>>, <<\hFC,\h81,1>>, <<\h393,\hE2,1>>, <<\h398,\hE9,1>>,
  <<\h3A3,\hE4,1>>, <<\h3A6,\hE8,1>>, <<\h3A9,\hEA,1>>, <<\h3B1,\hE0,1>>, <<\h3B4,\hEB,1>>,
  <<\h3B5,\hEE,1>>, <<\h3C0,\hE3,1>>, <<\h3C3,\hE5,1>>, <<\h3C4,\hE7,1>>, <<\h3C6,\hED,1>>,
  <<\h207F,\hFC,1>>, <<\h20A7,\h9E,1>>, <<\h2219,\hF9,1>>, <<\h221A,\hFB,1>>, <<\h221E,\hEC,1>>,
  <<\h2229,\hEF,1>>, <<\h2248,\hF7,1>>, <<\h2261,\hF0,1>>, <<\h2264,\hF3,1>>, <<\h2265,\hF2,1>>,
  <<\h2320,\hF4,2>>, <<\h2500,\hC4,1>>, <<\h2502,\hB3,1>>, <<\h250C,\hDA,1>>, <<\h2510,\hBF,1>>,
  <<\h2514,\hC0,1>>, <<\h2518,\hD9,1>>, <<\h251C,\hC3,1>>, <<\h2524,\hB4,1>>, <<\h252C,\hC2,1>>,
  <<\h2534,\hC1,1>>, <<\h253C,\hC5,1>>, <<\h2550,\hCD,1>>, <<\h2551,\hBA,1>>, <<\h2552,\hD5,2>>,
  <<\h2554,\hC9,1>>, <<\h2555,\hB8,1>>, <<\h2556,\hB7,1>>, <<\h2557,\hBB,1>>, <<\h2558,\hD4,1>>,
  <<\h2559,\hD3,1>>, <<\h255A,\hC8,1>>, <<\h255B,\hBE,1>>, <<\h255C,\hBD,1>>, <<\h255D,\hBC,1>>,
  <<\h255E,\hC6,2>>, <<\h2560,\hCC,1>>, <<\h2561,\hB5,2>>, <<\h2563,\hB9,1>>, <<\h2564,\hD1,2>>,
  <<\h2566,\hCB,1>>, <<\h2567,\hCF,2>>, <<\h2569,\hCA,1>>, <<\h256A,\hD8,1>>, <<\h256B,\hD7,1>>,
  <<\h256C,\hCE,1>>, <<\h2580,\hDF,1>>, <<\h2584,\hDC,1>>, <<\h2588,\hDB,1>>, <<\h258C,\hDD,1>>,
  <<\h2590,\hDE,1>>, <<\h2591,\hB0,3>>, <<\h25A0,\hFE,1>> >>

cp861_charset2uni ==
  Ascii \o <<
    \hC7, \hFC, \hE9, \hE2, \hE4, \hE0, \hE5, \hE7, \hEA, \hEB, \hE8, \hD0, \hF0, \hDE, \hC4,
    \hC5, \hC9, \hE6, \hC6, \hF4, \hF6, \hFE, \hFB, \hDD, \hFD, \hD6, \hDC, \hF8, \hA3, \hD8,
    \h20A7, \h192, \hE1, \hED, \hF3, \hFA, \hC1, \hCD, \hD3, \hDA, \hBF, \h2310, \hAC, \hBD,
    \hBC, \hA1, \hAB, \hBB, \h2591, \h2592, \h2593, \h2502, \h2524, \h2561, \h2562, \h2556,
    \h2555, \h2563, \h2551, \h2557, \h255D, \h255C, \h255B, \h2510, \h2514, \h2534, \h252C,
    \h251C, \h2500, \h253C, \h255E, \h255F, \h255A, \h2554, \h2569, \h2566, \h2560, \h2550,
    \h256C, \h2567, \h2568, \h2564, \h2565, \h2559, \h2558, \h2552, \h2553, \h256B, \h256A,
    \h2518, \h250C, \h2588, \h2584, \h258C, \h2590, \h2580, \h3B1, \hDF, \h393, \h3C0, \h3A3,
    \h3C3, \hB5, \h3C4, \h3A6, \h398, \h3A9, \h3B4, \h221E, \h3C6, \h3B5, \h2229, \h2261, \hB1,
    \h2265, \h2264, \h2320, \h2321, \hF7, \h2248, \hB0, \h2219, \hB7, \h221A, \h207F, \hB2,
    \h25A0, \hA0 >>

cp861_uni2charset == <<
  <<0,0,128>>, <<\hA0,\hFF,1>>, <<\hA1,\hAD,1>>, <<\hA3,\h9C,1>>, <<\hAB,\hAE,1>>,
  <<\hAC,\hAA,1>>, <<\hB0,\hF8,1>>, <<\hB1,\hF1,1>>, <<\hB2,\hFD,1>>, <<\hB5,\hE6,1>>,
  <<\hB7,\hFA,1>>, <<\hBB,\hAF,1>>, <<\hBC,\hAC,1>>, <<\hBD,\hAB,1>>, <<\hBF,\hA8,1>>,
  <<\hC1,\hA4,1>>, <<\hC4,\h8E,2>>, <<\hC6,\h92,1>>, <<\hC7,\h80,1>>, <<\hC9,\h90,1>>,
  <<\hCD,\hA5,1>>, <<\hD0,\h8B,1>>, <<\hD3,\hA6,1>>, <<\hD6,\h99,1>>, <<\hD8,\h9D,1>>,
  <<\hDA,\hA7,1>>, <<\hDC,\h9A,1>>, <<\hDD,\h97,1>>, <<\hDE,\h8D,1>>, <<\hDF,\hE1,1>>,
  <<\hE0,\h85,1>>, <<\hE1,\hA0,1>>, <<\hE2,\h83,1>>, <<\hE4,\h84,1>>, <<\hE5,\h86,1>>,
  <<\hE6,\h91,1>>, <<\hE7,\h87,1>>, <<\hE8,\h8A,1>>, <<\hE9,\h82,1>>, <<\hEA,\h88,2>>,
  <<\hED,\hA1,1>>, <<\hF0,\h8C,1>>, <<\hF3,\hA2,1>>, <<\hF4,\h93,1>>, <<\hF6,\h94,1>>,
  <<\hF7,\hF6,1>>, <<\hF8,\h9B,1>>, <<\hFA,\hA3,1>>, <<\hFB,\h96,1>>, <<\hFC,\h81,1>>,
  <<\hFD,\h98,1>>, <<\hFE,\h95,1>>, <<\h192,\h9F,1>>, <<\h393,\hE2,1>>, <<\h398,\hE9,1>>,
  <<\h3A3,\hE4,1>>, <<\h3A6,\hE8,1>>, <<\h3A9,\hEA,1>>, <<\h3B1,\hE0,1>>, <<\h3B4,\hEB,1>>,
  <<\h3B5,\hEE,1>>, <<\h3C0,\hE3,1>>, <<\h3C3,\hE5,1>>, <<\h3C4,\hE7,1>>, <<\h3C6,\hED,1>>,
  <<\h207F,\hFC,1>>, <<\h20A7,\h9E,1>>, <<\h2219,\hF9,1>>, <<\h221A,\hFB,1>>, <<\h221E,\hEC,1>>,
  <<\h2229,\hEF,1>>, <<\h2248,\hF7,1>>, <<\h2261,\hF0,1>>, <<\h2264,\hF3,1>>, <<\h2265,\hF2,1>>,
  <<\h2310,\hA9,1>>, <<\h2320,\hF4,2>>, <<\h2500,\hC4,1>>, <<\h2502,\hB3,1>>, <<\h250C,\hDA,1>>,
  <<\h2510,\hBF,1>>, <<\h2514,\hC0,1>>, <<\h2518,\hD9,1>>, <<\h251C,\hC3,1>>, <<\h2524,\hB4,1>>,
  <<\h252C,\hC2,1>>, <<\h2534,\hC1,1>>, <<\h253C,\hC5,1>>, <<\h2550,\hCD,1>>, <<\h2551,\hBA,1>>,
  <<\h2552,\hD5,2>>, <<\h2554,\hC9,1>>, <<\h2555,\hB8,1>>, <<\h2556,\hB7,1>>, <<\h2557,\hBB,1>>,
  <<\h2558,\hD4,1>>, <<\h2559,\hD3,1>>, <<\h255A,\hC8,1>>, <<\h255B,\hBE,1>>, <<\h255C,\hBD,1>>,
  <<\h255D,\hBC,1>>, <<\h255E,\hC6,2>>, <<\h2560,\hCC,1>>, <<\h2561,\hB5,2>>, <<\h2563,\hB9,1>>,
  <<\h2564,\hD1,2>>, <<\h2566,\hCB,1>>, <<\h2567,\hCF,2>>, <<\h2569,\hCA,1>>, <<\h256A,\hD8,1>>,
  <<\h256B,\hD7,1>>, <<\h256C,\hCE,1>>, <<\h2580,\hDF,1>>, <<\h2584,\hDC,1>>, <<\h2588,\hDB,1>>,
  <<\h258C,\hDD,1>>, <<\h2590,\hDE,1>>, <<\h2591,\hB0,3>>, <<\h25A0,\hFE,1>> >>

cp862_charset2uni ==
  Ascii \o From(\h5D0, 27) \o <<
    \hA2, \hA3, \hA5, \h20A7, \h192, \hE1, \hED, \hF3, \hFA, \hF1, \hD1, \hAA, \hBA, \hBF,
    \h2310, \hAC, \hBD, \hBC, \hA1, \hAB, \hBB, \h2591, \h2592, \h2593, \h2502, \h2524, \h2561,
    \h2562, \h2556, \h2555, \h2563, \h2551, \h2557, \h255D, \h255C, \h255B, \h2510, \h2514,
    \h2534, \h252C, \h251C, \h2500, \h253C, \h255E, \h255F, \h255A, \h2554, \h2569, \h2566,
    \h2560, \h2550, \h256C, \h2567, \h2568, \h2564, \h2565, \h2559, \h2558, \h2552, \h2553,
    \h256B, \h256A, \h2518, \h250C, \h2588, \h2584, \h258C, \h2590, \h2580, \h3B1, \hDF, \h393,
    \h3C0, \h3A3, \h3C3, \hB5, \h3C4, \h3A6, \h398, \h3A9, \h3B4, \h221E, \h3C6, \h3B5, \h2229,
    \h2261, \hB1, \h2265, \h2264, \h2320, \h2321, \hF7, \h2248, \hB0, \h2219, \hB7, \h221A,
    \h207F, \hB2, \h25A0, \hA0 >>

cp862_uni2charset == <<
  <<0,0,128>>, <<\hA0,\hFF,1>>, <<\hA1,\hAD,1>>, <<\hA2,\h9B,2>>, <<\hA5,\h9D,1>>,
  <<\hAA,\hA6,1>>, <<\hAB,\hAE,1>>, <<\hAC,\hAA,1>>, <<\hB0,\hF8,1>>, <<\hB1,\hF1,1>>,
  <<\hB2,\hFD,1>>, <<\hB5,\hE6,1>>, <<\hB7,\hFA,1>>, <<\hBA,\hA7,1>>, <<\hBB,\hAF,1>>,
  <<\hBC,\hAC,1>>, <<\hBD,\hAB,1>>, <<\hBF,\hA8,1>>, <<\hD1,\hA5,1>>, <<\hDF,\hE1,1>>,
  <<\hE1,\hA0,1>>, <<\hED,\hA1,1>>, <<\hF1,\hA4,1>>, <<\hF3,\hA2,1>>, <<\hF7,\hF6,1>>,
  <<\hFA,\hA3,1>>, <<\h192,\h9F,1>>, <<\h393,\hE2,1>>, <<\h398,\hE9,1>>, <<\h3A3,\hE4,1>>,
  <<\h3A6,\hE8,1>>, <<\h3A9,\hEA,1>>, <<\h3B1,\hE0,1>>, <<\h3B4,\hEB,1>>, <<\h3B5,\hEE,1>>,
  <<\h3C0,\hE3,1>>, <<\h3C3,\hE5,1>>, <<\h3C4,\hE7,1>>, <<\h3C6,\hED,1>>, <<\h5D0,\h80,27>>,
  <<\h207F,\hFC,1>>, <<\h20A7,\h9E,1>>, <<\h2219,\hF9,1>>, <<\h221A,\hFB,1>>, <<\h221E,\hEC,1>>,
  <<\h2229,\hEF,1>>, <<\h2248,\hF7,1>>, <<\h2261,\hF0,1>>, <<\h2264,\hF3,1>>, <<\h2265,\hF2,1>>,
  <<\h2310,\hA9,1>>, <<\h2320,\hF4,2>>, <<\h2500,\hC4,1>>, <<\h2502,\hB3,1>>, <<\h250C,\hDA,1>>,
  <<\h2510,\hBF,1>>, <<\h2514,\hC0,1>>, <<\h2518,\hD9,1>>, <<\h251C,\hC3,1>>, <<\h2524,\hB4,1>>,
  <<\h252C,\hC2,1>>, <<\h2534,\hC1,1>>, <<\h253C,\hC5,1>>, <<\h2550,\hCD,1>>, <<\h2551,\hBA,1>>,
  <<\h2552,\hD5,2>>, <<\h2554,\hC9,1>>, <<\h2555,\hB8,1>>, <<\h2556,\hB7,1>>, <<\h2557,\hBB,1>>,
  <<\h2558,\hD4,1>>, <<\h2559,\hD3,1>>, <<\h255A,\hC8,1>>, <<\h255B,\hBE,1>>, <<\h255C,\hBD,1>>,
  <<\h255D,\hBC,1>>, <<\h255E,\hC6,2>>, <<\h2560,\hCC,1>>, <<\h2561,\hB5,2>>, <<\h2563,\hB9,1>>,
  <<\h2564,\hD1,2>>, <<\h2566,\hCB,1>>, <<\h2567,\hCF,2>>, <<\h2569,\hCA,1>>, <<\h256A,\hD8,1>>,
  <<\h256B,\hD7,1>>, <<\h256C,\hCE,1>>, <<\h2580,\hDF,1>>, <<\h2584,\hDC,1>>, <<\h2588,\hDB,1>>,
  <<\h258C,\hDD,1>>, <<\h2590,\hDE,1>>, <<\h2591,\hB0,3>>, <<\h25A0,\hFE,1>> >>

cp863_charset2uni ==
  Ascii \o <<
    \hC7, \hFC, \hE9, \hE2, \hC2, \hE0, \hB6, \hE7, \hEA, \hEB, \hE8, \hEF, \hEE, \h2017, \hC0,
    \hA7, \hC9, \hC8, \hCA, \hF4, \hCB, \hCF, \hFB, \hF9, \hA4, \hD4, \hDC, \hA2, \hA3, \hD9,
    \hDB, \h192, \hA6, \hB4, \hF3, \hFA, \hA8, \hB8, \hB3, \hAF, \hCE, \h2310, \hAC, \hBD, \hBC,
    \hBE, \hAB, \hBB, \h2591, \h2592, \h2593, \h2502, \h2524, \h2561, \h2562, \h2556, \h2555,
    \h2563, \h2551, \h2557, \h255D, \h255C, \h255B, \h2510, \h2514, \h2534, \h252C, \h251C,
    \h2500, \h253C, \h255E, \h255F, \h255A, \h2554, \h2569, \h2566, \h2560, \h2550, \h256C,
    \h2567, \h2568, \h2564, \h2565, \h2559, \h2558, \h2552, \h2553, \h256B, \h256A, \h2518,
    \h250C, \h2588, \h2584, \h258C, \h2590, \h2580, \h3B1, \hDF, \h393, \h3C0, \h3A3, \h3C3,
    \hB5, \h3C4, \h3A6, \h398, \h3A9, \h3B4, \h221E, \h3C6, \h3B5, \h2229, \h2261, \hB1, \h2265,
    \h2264, \h2320, \h2321, \hF7, \h2248, \hB0, \h2219, \hB7, \h221A, \h207F, \hB2, \h25A0, \hA0 >>

cp863_uni2charset == <<
  <<0,0,128>>, <<\hA0,\hFF,1>>, <<\hA2,\h9B,2>>, <<\hA4,\h98,1>>, <<\hA6,\hA0,1>>,
  <<\hA7,\h8F,1>>, <<\hA8,\hA4,1>>, <<\hAB,\hAE,1>>, <<\hAC,\hAA,1>>, <<\hAF,\hA7,1>>,
  <<\hB0,\hF8,1>>, <<\hB1,\hF1,1>>, <<\hB2,\hFD,1>>, <<\hB3,\hA6,1>>, <<\hB4,\hA1,1>>,
  <<\hB5,\hE6,1>>, <<\hB6,\h86,1>>, <<\hB7,\hFA,1>>, <<\hB8,\hA5,1>>, <<\hBB,\hAF,1>>,
  <<\hBC,\hAC,1>>, <<\hBD,\hAB,1>>, <<\hBE,\hAD,1>>, <<\hC0,\h8E,1>>, <<\hC2,\h84,1>>,
  <<\hC7,\h80,1>>, <<\hC8,\h91,1>>, <<\hC9,\h90,1>>, <<\hCA,\h92,1>>, <<\hCB,\h94,1>>,
  <<\hCE,\hA8,1>>, <<\hCF,\h95,1>>, <<\hD4,\h99,1>>, <<\hD9,\h9D,1>>, <<\hDB,\h9E,1>>,
  <<\hDC,\h9A,1>>, <<\hDF,\hE1,1>>, <<\hE0,\h85,1>>, <<\hE2,\h83,1>>, <<\hE7,\h87,1>>,
  <<\hE8,\h8A,1>>, <<\hE9,\h82,1>>, <<\hEA,\h88,2>>, <<\hEE,\h8C,1>>, <<\hEF,\h8B,1>>,
  <<\hF3,\hA2,1>>, <<\hF4,\h93,1>>, <<\hF7,\hF6,1>>, <<\hF9,\h97,1>>, <<\hFA,\hA3,1>>,
  <<\hFB,\h96,1>>, <<\hFC,\h81,1>>, <<\h192,\h9F,1>>, <<\h393,\hE2,1>>, <<\h398,\hE9,1>>,
  <<\h3A3,\hE4,1>>, <<\h3A6,\hE8,1>>, <<\h3A9,\hEA,1>>, <<\h3B1,\hE0,1>>, <<\h3B4,\hEB,1>>,
  <<\h3B5,\hEE,1>>, <<\h3C0,\hE3,1>>, <<\h3C3,\hE5,1>>, <<\h3C4,\hE7,1>>, <<\h3C6,\hED,1>>,
  <<\h2017,\h8D,1>>, <<\h207F,\hFC,1>>, <<\h2219,\hF9,1>>, <<\h221A,\hFB,1>>, <<\h221E,\hEC,1>>,
  <<\h2229,\hEF,1>>, <<\h2248,\hF7,1>>, <<\h2261,\hF0,1>>, <<\h2264,\hF3,1>>, <<\h2265,\hF2,1>>,
  <<\h2310,\hA9,1>>, <<\h2320,\hF4,2>>, <<\h2500,\hC4,1>>, <<\h2502,\hB3,1>>, <<\h250C,\hDA,1>>,
  <<\h2510,\hBF,1>>, <<\h2514,\hC0,1>>, <<\h2518,\hD9,1>>, <<\h251C,\hC3,1>>, <<\h2524,\hB4,1>>,
  <<\h252C,\hC2,1>>, <<\h2534,\hC1,1>>, <<\h253C,\hC5,1>>, <<\h2550,\hCD,1>>, <<\h2551,\hBA,1>>,
  <<\h2552,\hD5,2>>, <<\h2554,\hC9,1>>, <<\h2555,\hB8,1>>, <<\h2556,\hB7,1>>, <<\h2557,\hBB,1>>,
  <<\h2558,\hD4,1>>, <<\h2559,\hD3,1>>, <<\h255A,\hC8,1>>, <<\h255B,\hBE,1>>, <<\h255C,\hBD,1>>,
  <<\h255D,\hBC,1>>, <<\h255E,\hC6,2>>, <<\h2560,\hCC,1>>, <<\h2561,\hB5,2>>, <<\h2563,\hB9,1>>,
  <<\h2564,\hD1,2>>, <<\h2566,\hCB,1>>, <<\h2567,\hCF,2>>, <<\h2569,\hCA,1>>, <<\h256A,\hD8,1>>,
  <<\h256B,\hD7,1>>, <<\h256C,\hCE,1>>, <<\h2580,\hDF,1>>, <<\h2584,\hDC,1>>, <<\h2588,\hDB,1>>,
  <<\h258C,\hDD,1>>, <<\h2590,\hDE,1>>, <<\h2591,\hB0,3>>, <<\h25A0,\hFE,1>> >>

cp864_charset2uni ==
  [Ascii EXCEPT ![38] = \h66A] \o <<
    \hB0, \hB7, \h2219, \h221A, \h2592, \h2500, \h2502, \h253C, \h2524, \h252C, \h251C, \h2534,
    \h2510, \h250C, \h2514, \h2518, \h3B2, \h221E, \h3C6, \hB1, \hBD, \hBC, \h2248, \hAB, \hBB,
    \hFEF7, \hFEF8, 0, 0, \hFEFB, \hFEFC, 0, \hA0, \hAD, \hFE82, \hA3, \hA4, \hFE84, 0, 0,
    \hFE8E, \hFE8F, \hFE95, \hFE99, \h60C, \hFE9D, \hFEA1, \hFEA5 >> \o From(\h660, 10) \o <<
    \hFED1, \h61B, \hFEB1, \hFEB5, \hFEB9, \h61F, \hA2, \hFE80, \hFE81, \hFE83, \hFE85, \hFECA,
    \hFE8B, \hFE8D, \hFE91, \hFE93, \hFE97, \hFE9B, \hFE9F, \hFEA3, \hFEA7, \hFEA9, \hFEAB,
    \hFEAD, \hFEAF, \hFEB3, \hFEB7, \hFEBB, \hFEBF, \hFEC1, \hFEC5, \hFECB, \hFECF, \hA6, \hAC,
    \hF7, \hD7, \hFEC9, \h640, \hFED3, \hFED7, \hFEDB, \hFEDF, \hFEE3, \hFEE7, \hFEEB, \hFEED,
    \hFEEF, \hFEF3, \hFEBD, \hFECC, \hFECE, \hFECD, \hFEE1, \hFE7D, \h651, \hFEE5, \hFEE9,
    \hFEEC, \hFEF0, \hFEF2, \hFED0, \hFED5, \hFEF5, \hFEF6, \hFEDD, \hFED9, \hFEF1, \h25A0, 0 >>

cp864_uni2charset == <<
  <<0,0,37>>, <<\h26,\h26,90>>, <<\hA0,\hA0,1>>, <<\hA2,\hC0,1>>, <<\hA3,\hA3,2>>,
  <<\hA6,\hDB,1>>, <<\hAB,\h97,1>>, <<\hAC,\hDC,1>>, <<\hAD,\hA1,1>>, <<\hB0,\h80,1>>,
  <<\hB1,\h93,1>>, <<\hB7,\h81,1>>, <<\hBB,\h98,1>>, <<\hBC,\h95,1>>, <<\hBD,\h94,1>>,
  <<\hD7,\hDE,1>>, <<\hF7,\hDD,1>>, <<\h3B2,\h90,1>>, <<\h3C6,\h92,1>>, <<\h60C,\hAC,1>>,
  <<\h61B,\hBB,1>>, <<\h61F,\hBF,1>>, <<\h640,\hE0,1>>, <<\h651,\hF1,1>>, <<\h660,\hB0,10>>,
  <<\h66A,\h25,1>>, <<\h2219,\h82,2>>, <<\h221E,\h91,1>>, <<\h2248,\h96,1>>, <<\h2500,\h85,1>>,
  <<\h2502,\h86,1>>, <<\h250C,\h8D,1>>, <<\h2510,\h8C,1>>, <<\h2514,\h8E,1>>, <<\h2518,\h8F,1>>,
  <<\h251C,\h8A,1>>, <<\h2524,\h88,1>>, <<\h252C,\h89,1>>, <<\h2534,\h8B,1>>, <<\h253C,\h87,1>>,
  <<\h2592,\h84,1>>, <<\h25A0,\hFE,1>>, <<\hFE7D,\hF0,1>>, <<\hFE80,\hC1,2>>, <<\hFE82,\hA2,1>>,
  <<\hFE83,\hC3,1>>, <<\hFE84,\hA5,1>>, <<\hFE85,\hC4,1>>, <<\hFE8B,\hC6,1>>, <<\hFE8D,\hC7,1>>,
  <<\hFE8E,\hA8,2>>, <<\hFE91,\hC8,1>>, <<\hFE93,\hC9,1>>, <<\hFE95,\hAA,1>>, <<\hFE97,\hCA,1>>,
  <<\hFE99,\hAB,1>>, <<\hFE9B,\hCB,1>>, <<\hFE9D,\hAD,1>>, <<\hFE9F,\hCC,1>>, <<\hFEA1,\hAE,1>>,
  <<\hFEA3,\hCD,1>>, <<\hFEA5,\hAF,1>>, <<\hFEA7,\hCE,1>>, <<\hFEA9,\hCF,1>>, <<\hFEAB,\hD0,1>>,
  <<\hFEAD,\hD1,1>>, <<\hFEAF,\hD2,1>>, <<\hFEB1,\hBC,1>>, <<\hFEB3,\hD3,1>>, <<\hFEB5,\hBD,1>>,
  <<\hFEB7,\hD4,1>>, <<\hFEB9,\hBE,1>>, <<\hFEBB,\hD5,1>>, <<\hFEBD,\hEB,1>>, <<\hFEBF,\hD6,1>>,
  <<\hFEC1,\hD7,1>>, <<\hFEC5,\hD8,1>>, <<\hFEC9,\hDF,1>>, <<\hFECA,\hC5,1>>, <<\hFECB,\hD9,1>>,
  <<\hFECC,\hEC,1>>, <<\hFECD,\hEE,1>>, <<\hFECE,\hED,1>>, <<\hFECF,\hDA,1>>, <<\hFED0,\hF7,1>>,
  <<\hFED1,\hBA,1>>, <<\hFED3,\hE1,1>>, <<\hFED5,\hF8,1>>, <<\hFED7,\hE2,1>>, <<\hFED9,\hFC,1>>,
  <<\hFEDB,\hE3,1>>, <<\hFEDD,\hFB,1>>, <<\hFEDF,\hE4,1>>, <<\hFEE1,\hEF,1>>, <<\hFEE3,\hE5,1>>,
  <<\hFEE5,\hF2,1>>, <<\hFEE7,\hE6,1>>, <<\hFEE9,\hF3,1>>, <<\hFEEB,\hE7,1>>, <<\hFEEC,\hF4,1>>,
  <<\hFEED,\hE8,1>>, <<\hFEEF,\hE9,1>>, <<\hFEF0,\hF5,1>>, <<\hFEF1,\hFD,1>>, <<\hFEF2,\hF6,1>>,
  <<\hFEF3,\hEA,1>>, <<\hFEF5,\hF9,2>>, <<\hFEF7,\h99,2>>, <<\hFEFB,\h9D,2>> >>

cp865_charset2uni ==
  Ascii \o <<
    \hC7, \hFC, \hE9, \hE2, \hE4, \hE0, \hE5, \hE7, \hEA, \hEB, \hE8, \hEF, \hEE, \hEC, \hC4,
    \hC5, \hC9, \hE6, \hC6, \hF4, \hF6, \hF2, \hFB, \hF9, \hFF, \hD6, \hDC, \hF8, \hA3, \hD8,
    \h20A7, \h192, \hE1, \hED, \hF3, \hFA, \hF1, \hD1, \hAA, \hBA, \hBF, \h2310, \hAC, \hBD,
    \hBC, \hA1, \hAB, \hA4, \h2591, \h2592, \h2593, \h2502, \h2524, \h2561, \h2562, \h2556,
    \h2555, \h2563, \h2551, \h2557, \h255D, \h255C, \h255B, \h2510, \h2514, \h2534, \h252C,
    \h251C, \h2500, \h253C, \h255E, \h255F, \h255A, \h2554, \h2569, \h2566, \h2560, \h2550,
    \h256C, \h2567, \h2568, \h2564, \h2565, \h2559, \h2558, \h2552, \h2553, \h256B, \h256A,
    \h2518, \h250C, \h2588, \h2584, \h258C, \h2590, \h2580, \h3B1, \hDF, \h393, \h3C0, \h3A3,
    \h3C3, \hB5, \h3C4, \h3A6, \h398, \h3A9, \h3B4, \h221E, \h3C6, \h3B5, \h2229, \h2261, \hB1,
    \h2265, \h2264, \h2320, \h2321, \hF7, \h2248, \hB0, \h2219, \hB7, \h221A, \h207F, \hB2,
    \h25A0, \hA0 >>

cp865_uni2charset == <<
  <<0,0,128>>, <<\hA0,\hFF,1>>, <<\hA1,\hAD,1>>, <<\hA3,\h9C,1>>, <<\hA4,\hAF,1>>,
  <<\hAA,\hA6,1>>, <<\hAB,\hAE,1>>, <<\hAC,\hAA,1>>, <<\hB0,\hF8,1>>, <<\hB1,\hF1,1>>,
  <<\hB2,\hFD,1>>, <<\hB5,\hE6,1>>, <<\hB7,\hFA,1>>, <<\hBA,\hA7,1>>, <<\hBC,\hAC,1>>,
  <<\hBD,\hAB,1>>, <<\hBF,\hA8,1>>, <<\hC4,\h8E,2>>, <<\hC6,\h92,1>>, <<\hC7,\h80,1>>,
  <<\hC9,\h90,1>>, <<\hD1,\hA5,1>>, <<\hD6,\h99,1>>, <<\hD8,\h9D,1>>, <<\hDC,\h9A,1>>,
  <<\hDF,\hE1,1>>, <<\hE0,\h85,1>>, <<\hE1,\hA0,1>>, <<\hE2,\h83,1>>, <<\hE4,\h84,1>>,
  <<\hE5,\h86,1>>, <<\hE6,\h91,1>>, <<\hE7,\h87,1>>, <<\hE8,\h8A,1>>, <<\hE9,\h82,1>>,
  <<\hEA,\h88,2>>, <<\hEC,\h8D,1>>, <<\hED,\hA1,1>>, <<\hEE,\h8C,1>>, <<\hEF,\h8B,1>>,
  <<\hF1,\hA4,1>>, <<\hF2,\h95,1>>, <<\hF3,\hA2,1>>, <<\hF4,\h93,1>>, <<\hF6,\h94,1>>,
  <<\hF7,\hF6,1>>, <<\hF8,\h9B,1>>, <<\hF9,\h97,1>>, <<\hFA,\hA3,1>>, <<\hFB,\h96,1>>,
  <<\hFC,\h81,1>>, <<\hFF,\h98,1>>, <<\h192,\h9F,1>>, <<\h393,\hE2,1>>, <<\h398,\hE9,1>>,
  <<\h3A3,\hE4,1>>, <<\h3A6,\hE8,1>>, <<\h3A9,\hEA,1>>, <<\h3B1,\hE0,1>>, <<\h3B4,\hEB,1>>,
  <<\h3B5,\hEE,1>>, <<\h3C0,\hE3,1>>, <<\h3C3,\hE5,1>>, <<\h3C4,\hE7,1>>, <<\h3C6,\hED,1>>,
  <<\h207F,\hFC,1>>, <<\h20A7,\h9E,1>>, <<\h2219,\hF9,1>>, <<\h221A,\hFB,1>>, <<\h221E,\hEC,1>>,
  <<\h2229,\hEF,1>>, <<\h2248,\hF7,1>>, <<\h2261,\hF0,1>>, <<\h2264,\hF3,1>>, <<\h2265,\hF2,1>>,
  <<\h2310,\hA9,1>>, <<\h2320,\hF4,2>>, <<\h2500,\hC4,1>>, <<\h2502,\hB3,1>>, <<\h250C,\hDA,1>>,
  <<\h2510,\hBF,1>>, <<\h2514,\hC0,1>>, <<\h2518,\hD9,1>>, <<\h251C,\hC3,1>>, <<\h2524,\hB4,1>>,
  <<\h252C,\hC2,1>>, <<\h2534,\hC1,1>>, <<\h253C,\hC5,1>>, <<\h2550,\hCD,1>>, <<\h2551,\hBA,1>>,
  <<\h2552,\hD5,2>>, <<\h2554,\hC9,1>>, <<\h2555,\hB8,1>>, <<\h2556,\hB7,1>>, <<\h2557,\hBB,1>>,
  <<\h2558,\hD4,1>>, <<\h2559,\hD3,1>>, <<\h255A,\hC8,1>>, <<\h255B,\hBE,1>>, <<\h255C,\hBD,1>>,
  <<\h255D,\hBC,1>>, <<\h255E,\hC6,2>>, <<\h2560,\hCC,1>>, <<\h2561,\hB5,2>>, <<\h2563,\hB9,1>>,
  <<\h2564,\hD1,2>>, <<\h2566,\hCB,1>>, <<\h2567,\hCF,2>>, <<\h2569,\hCA,1>>, <<\h256A,\hD8,1>>,
  <<\h256B,\hD7,1>>, <<\h256C,\hCE,1>>, <<\h2580,\hDF,1>>, <<\h2584,\hDC,1>>, <<\h2588,\hDB,1>>,
  <<\h258C,\hDD,1>>, <<\h2590,\hDE,1>>, <<\h2591,\hB0,3>>, <<\h25A0,\hFE,1>> >>

cp866_charset2uni ==
  Ascii \o From(\h410, 48) \o <<
    \h2591, \h2592, \h2593, \h2502, \h2524, \h2561, \h2562, \h2556, \h2555, \h2563, \h2551,
    \h2557, \h255D, \h255C, \h255B, \h2510, \h2514, \h2534, \h252C, \h251C, \h2500, \h253C,
    \h255E, \h255F, \h255A, \h2554, \h2569, \h2566, \h2560, \h2550, \h256C, \h2567, \h2568,
    \h2564, \h2565, \h2559, \h2558, \h2552, \h2553, \h256B, \h256A, \h2518, \h250C, \h2588,
    \h2584, \h258C, \h2590, \h2580 >> \o From(\h440, 16) \o <<
    \h401, \h451, \h404, \h454, \h407, \h457, \h40E, \h45E, \hB0, \h2219, \hB7, \h221A, \h2116,
    \hA4, \h25A0, \hA0 >>

cp866_uni2charset == <<
  <<0,0,128>>, <<\hA0,\hFF,1>>, <<\hA4,\hFD,1>>, <<\hB0,\hF8,1>>, <<\hB7,\hFA,1>>,
  <<\h401,\hF0,1>>, <<\h404,\hF2,1>>, <<\h407,\hF4,1>>, <<\h40E,\hF6,1>>, <<\h410,\h80,48>>,
  <<\h440,\hE0,16>>, <<\h451,\hF1,1>>, <<\h454,\hF3,1>>, <<\h457,\hF5,1>>, <<\h45E,\hF7,1>>,
  <<\h2116,\hFC,1>>, <<\h2219,\hF9,1>>, <<\h221A,\hFB,1>>, <<\h2500,\hC4,1>>, <<\h2502,\hB3,1>>,
  <<\h250C,\hDA,1>>, <<\h2510,\hBF,1>>, <<\h2514,\hC0,1>>, <<\h2518,\hD9,1>>, <<\h251C,\hC3,1>>,
  <<\h2524,\hB4,1>>, <<\h252C,\hC2,1>>, <<\h2534,\hC1,1>>, <<\h253C,\hC5,1>>, <<\h2550,\hCD,1>>,
  <<\h2551,\hBA,1>>, <<\h2552,\hD5,2>>, <<\h2554,\hC9,1>>, <<\h2555,\hB8,1>>, <<\h2556,\hB7,1>>,
  <<\h2557,\hBB,1>>, <<\h2558,\hD4,1>>, <<\h2559,\hD3,1>>, <<\h255A,\hC8,1>>, <<\h255B,\hBE,1>>,
  <<\h255C,\hBD,1>>, <<\h255D,\hBC,1>>, <<\h255E,\hC6,2>>, <<\h2560,\hCC,1>>, <<\h2561,\hB5,2>>,
  <<\h2563,\hB9,1>>, <<\h2564,\hD1,2>>, <<\h2566,\hCB,1>>, <<\h2567,\hCF,2>>, <<\h2569,\hCA,1>>,
  <<\h256A,\hD8,1>>, <<\h256B,\hD7,1>>, <<\h256C,\hCE,1>>, <<\h2580,\hDF,1>>, <<\h2584,\hDC,1>>,
  <<\h2588,\hDB,1>>, <<\h258C,\hDD,1>>, <<\h2590,\hDE,1>>, <<\h2591,\hB0,3>>, <<\h25A0,\hFE,1>> >>

cp869_charset2uni ==
  Ascii \o None(6) \o <<
    \h386, 0, \hB7, \hAC, \hA6, \h2018, \h2019, \h388, \h2015, \h389, \h38A, \h3AA, \h38C, 0, 0,
    \h38E, \h3AB, \hA9, \h38F, \hB2, \hB3, \h3AC, \hA3, \h3AD, \h3AE, \h3AF, \h3CA, \h390,
    \h3CC, \h3CD >> \o From(\h391, 7) \o <<
    \hBD, \h398, \h399, \hAB, \hBB, \h2591, \h2592, \h2593, \h2502, \h2524, \h39A, \h39B, \h39C,
    \h39D, \h2563, \h2551, \h2557, \h255D, \h39E, \h39F, \h2510, \h2514, \h2534, \h252C, \h251C,
    \h2500, \h253C, \h3A0, \h3A1, \h255A, \h2554, \h2569, \h2566, \h2560, \h2550, \h256C >> \o From(\h3A3, 7) \o <<
    \h3B1, \h3B2, \h3B3, \h2518, \h250C, \h2588, \h2584, \h3B4, \h3B5, \h2580 >> \o From(\h3B6, 12) \o <<
    \h3C3, \h3C2, \h3C4, \h384, \hAD, \hB1, \h3C5, \h3C6, \h3C7, \hA7, \h3C8, \h385, \hB0, \hA8,
    \h3C9, \h3CB, \h3B0, \h3CE, \h25A0, \hA0 >>

cp869_uni2charset == <<
  <<0,0,128>>, <<\hA0,\hFF,1>>, <<\hA3,\h9C,1>>, <<\hA6,\h8A,1>>, <<\hA7,\hF5,1>>,
  <<\hA8,\hF9,1>>, <<\hA9,\h97,1>>, <<\hAB,\hAE,1>>, <<\hAC,\h89,1>>, <<\hAD,\hF0,1>>,
  <<\hB0,\hF8,1>>, <<\hB1,\hF1,1>>, <<\hB2,\h99,2>>, <<\hB7,\h88,1>>, <<\hBB,\hAF,1>>,
  <<\hBD,\hAB,1>>, <<\h384,\hEF,1>>, <<\h385,\hF7,1>>, <<\h386,\h86,1>>, <<\h388,\h8D,1>>,
  <<\h389,\h8F,2>>, <<\h38C,\h92,1>>, <<\h38E,\h95,1>>, <<\h38F,\h98,1>>, <<\h390,\hA1,1>>,
  <<\h391,\hA4,7>>, <<\h398,\hAC,2>>, <<\h39A,\hB5,4>>, <<\h39E,\hBD,2>>, <<\h3A0,\hC6,2>>,
  <<\h3A3,\hCF,7>>, <<\h3AA,\h91,1>>, <<\h3AB,\h96,1>>, <<\h3AC,\h9B,1>>, <<\h3AD,\h9D,3>>,
  <<\h3B0,\hFC,1>>, <<\h3B1,\hD6,3>>, <<\h3B4,\hDD,2>>, <<\h3B6,\hE0,12>>, <<\h3C2,\hED,1>>,
  <<\h3C3,\hEC,1>>, <<\h3C4,\hEE,1>>, <<\h3C5,\hF2,3>>, <<\h3C8,\hF6,1>>, <<\h3C9,\hFA,1>>,
  <<\h3CA,\hA0,1>>, <<\h3CB,\hFB,1>>, <<\h3CC,\hA2,2>>, <<\h3CE,\hFD,1>>, <<\h2015,\h8E,1>>,
  <<\h2018,\h8B,2>>, <<\h2500,\hC4,1>>, <<\h2502,\hB3,1>>, <<\h250C,\hDA,1>>, <<\h2510,\hBF,1>>,
  <<\h2514,\hC0,1>>, <<\h2518,\hD9,1>>, <<\h251C,\hC3,1>>, <<\h2524,\hB4,1>>, <<\h252C,\hC2,1>>,
  <<\h2534,\hC1,1>>, <<\h253C,\hC5,1>>, <<\h2550,\hCD,1>>, <<\h2551,\hBA,1>>, <<\h2554,\hC9,1>>,
  <<\h2557,\hBB,1>>, <<\h255A,\hC8,1>>, <<\h255D,\hBC,1>>, <<\h2560,\hCC,1>>, <<\h2563,\hB9,1>>,
  <<\h2566,\hCB,1>>, <<\h2569,\hCA,1>>, <<\h256C,\hCE,1>>, <<\h2580,\hDF,1>>, <<\h2584,\hDC,1>>,
  <<\h2588,\hDB,1>>, <<\h2591,\hB0,3>>, <<\h25A0,\hFE,1>> >>

cp874_charset2uni ==
  Ascii \o <<
    0, 0, 0, 0, 0, \h2026 >> \o None(11) \o <<
    \h2018, \h2019, \h201C, \h201D, \h2022, \h2013, \h2014 >> \o None(8) \o <<
    \hA0 >> \o From(\hE01, 58) \o <<
    0, 0, 0, 0 >> \o From(\hE3F, 29) \o <<
    0, 0, 0, 0 >>

cp874_uni2charset == <<
  <<0,0,128>>, <<\hA0,\hA0,1>>, <<\hE01,\hA1,58>>, <<\hE3F,\hDF,29>>, <<\h2013,\h96,2>>,
  <<\h2018,\h91,2>>, <<\h201C,\h93,2>>, <<\h2022,\h95,1>>, <<\h2026,\h85,1>> >>

\* register_nls() of each file.
CodepageTables == <<
  <<"cp437", cp437_charset2uni, cp437_uni2charset>>,
  <<"cp737", cp737_charset2uni, cp737_uni2charset>>,
  <<"cp775", cp775_charset2uni, cp775_uni2charset>>,
  <<"cp850", cp850_charset2uni, cp850_uni2charset>>,
  <<"cp852", cp852_charset2uni, cp852_uni2charset>>,
  <<"cp855", cp855_charset2uni, cp855_uni2charset>>,
  <<"cp857", cp857_charset2uni, cp857_uni2charset>>,
  <<"cp860", cp860_charset2uni, cp860_uni2charset>>,
  <<"cp861", cp861_charset2uni, cp861_uni2charset>>,
  <<"cp862", cp862_charset2uni, cp862_uni2charset>>,
  <<"cp863", cp863_charset2uni, cp863_uni2charset>>,
  <<"cp864", cp864_charset2uni, cp864_uni2charset>>,
  <<"cp865", cp865_charset2uni, cp865_uni2charset>>,
  <<"cp866", cp866_charset2uni, cp866_uni2charset>>,
  <<"cp869", cp869_charset2uni, cp869_uni2charset>>,
  <<"cp874", cp874_charset2uni, cp874_uni2charset>> >>

=============================================================================
