----------------------------- MODULE NlsCharsets -----------------------------
(***************************************************************************)
(* The other character sets (libunls):                                     *)
(* the two tables of each file.  charset2uni is the sequence of the        *)
(* Unicode characters of the bytes 0 to 255, 0 for one that has none; of   *)
(* page_uni2charset, a <<u, b, n>> says that the n characters from u on    *)
(* become the bytes from b on, and no other character has an entry.        *)
(***************************************************************************)
EXTENDS NlsRuns

iso8859_1_charset2uni ==
  Ascii \o None(32) \o From(\hA0, 96)

iso8859_1_uni2charset == <<
  <<0,0,128>>, <<\hA0,\hA0,96>> >>

iso8859_2_charset2uni ==
  Ascii \o None(32) \o <<
    \hA0, \h104, \h2D8, \h141, \hA4, \h13D, \h15A, \hA7, \hA8, \h160, \h15E, \h164, \h179, \hAD,
    \h17D, \h17B, \hB0, \h105, \h2DB, \h142, \hB4, \h13E, \h15B, \h2C7, \hB8, \h161, \h15F,
    \h165, \h17A, \h2DD, \h17E, \h17C, \h154, \hC1, \hC2, \h102, \hC4, \h139, \h106, \hC7,
    \h10C, \hC9, \h118, \hCB, \h11A, \hCD, \hCE, \h10E, \h110, \h143, \h147, \hD3, \hD4, \h150,
    \hD6, \hD7, \h158, \h16E, \hDA, \h170, \hDC, \hDD, \h162, \hDF, \h155, \hE1, \hE2, \h103,
    \hE4, \h13A, \h107, \hE7, \h10D, \hE9, \h119, \hEB, \h11B, \hED, \hEE, \h10F, \h111, \h144,
    \h148, \hF3, \hF4, \h151, \hF6, \hF7, \h159, \h16F, \hFA, \h171, \hFC, \hFD, \h163, \h2D9 >>

iso8859_2_uni2charset == <<
  <<0,0,128>>, <<\hA0,\hA0,1>>, <<\hA4,\hA4,1>>, <<\hA7,\hA7,2>>, <<\hAD,\hAD,1>>,
  <<\hB0,\hB0,1>>, <<\hB4,\hB4,1>>, <<\hB8,\hB8,1>>, <<\hC1,\hC1,2>>, <<\hC4,\hC4,1>>,
  <<\hC7,\hC7,1>>, <<\hC9,\hC9,1>>, <<\hCB,\hCB,1>>, <<\hCD,\hCD,2>>, <<\hD3,\hD3,2>>,
  <<\hD6,\hD6,2>>, <<\hDA,\hDA,1>>, <<\hDC,\hDC,2>>, <<\hDF,\hDF,1>>, <<\hE1,\hE1,2>>,
  <<\hE4,\hE4,1>>, <<\hE7,\hE7,1>>, <<\hE9,\hE9,1>>, <<\hEB,\hEB,1>>, <<\hED,\hED,2>>,
  <<\hF3,\hF3,2>>, <<\hF6,\hF6,2>>, <<\hFA,\hFA,1>>, <<\hFC,\hFC,2>>, <<\h102,\hC3,1>>,
  <<\h103,\hE3,1>>, <<\h104,\hA1,1>>, <<\h105,\hB1,1>>, <<\h106,\hC6,1>>, <<\h107,\hE6,1>>,
  <<\h10C,\hC8,1>>, <<\h10D,\hE8,1>>, <<\h10E,\hCF,1>>, <<\h10F,\hEF,1>>, <<\h110,\hD0,1>>,
  <<\h111,\hF0,1>>, <<\h118,\hCA,1>>, <<\h119,\hEA,1>>, <<\h11A,\hCC,1>>, <<\h11B,\hEC,1>>,
  <<\h139,\hC5,1>>, <<\h13A,\hE5,1>>, <<\h13D,\hA5,1>>, <<\h13E,\hB5,1>>, <<\h141,\hA3,1>>,
  <<\h142,\hB3,1>>, <<\h143,\hD1,1>>, <<\h144,\hF1,1>>, <<\h147,\hD2,1>>, <<\h148,\hF2,1>>,
  <<\h150,\hD5,1>>, <<\h151,\hF5,1>>, <<\h154,\hC0,1>>, <<\h155,\hE0,1>>, <<\h158,\hD8,1>>,
  <<\h159,\hF8,1>>, <<\h15A,\hA6,1>>, <<\h15B,\hB6,1>>, <<\h15E,\hAA,1>>, <<\h15F,\hBA,1>>,
  <<\h160,\hA9,1>>, <<\h161,\hB9,1>>, <<\h162,\hDE,1>>, <<\h163,\hFE,1>>, <<\h164,\hAB,1>>,
  <<\h165,\hBB,1>>, <<\h16E,\hD9,1>>, <<\h16F,\hF9,1>>, <<\h170,\hDB,1>>, <<\h171,\hFB,1>>,
  <<\h179,\hAC,1>>, <<\h17A,\hBC,1>>, <<\h17B,\hAF,1>>, <<\h17C,\hBF,1>>, <<\h17D,\hAE,1>>,
  <<\h17E,\hBE,1>>, <<\h2C7,\hB7,1>>, <<\h2D8,\hA2,1>>, <<\h2D9,\hFF,1>>, <<\h2DB,\hB2,1>>,
  <<\h2DD,\hBD,1>> >>

iso8859_3_charset2uni ==
  Ascii \o None(32) \o <<
    \hA0, \h126, \h2D8, \hA3, \hA4, 0, \h124, \hA7, \hA8, \h130, \h15E, \h11E, \h134, \hAD, 0,
    \h17B, \hB0, \h127, \hB2, \hB3, \hB4, \hB5, \h125, \hB7, \hB8, \h131, \h15F, \h11F, \h135,
    \hBD, 0, \h17C, \hC0, \hC1, \hC2, 0, \hC4, \h10A, \h108 >> \o From(\hC7, 9) \o <<
    0, \hD1, \hD2, \hD3, \hD4, \h120, \hD6, \hD7, \h11C, \hD9, \hDA, \hDB, \hDC, \h16C, \h15C,
    \hDF, \hE0, \hE1, \hE2, 0, \hE4, \h10B, \h109 >> \o From(\hE7, 9) \o <<
    0, \hF1, \hF2, \hF3, \hF4, \h121, \hF6, \hF7, \h11D, \hF9, \hFA, \hFB, \hFC, \h16D, \h15D,
    \h2D9 >>

iso8859_3_uni2charset == <<
  <<0,0,128>>, <<\hA0,\hA0,1>>, <<\hA3,\hA3,2>>, <<\hA7,\hA7,2>>, <<\hAD,\hAD,1>>,
  <<\hB0,\hB0,1>>, <<\hB2,\hB2,4>>, <<\hB7,\hB7,2>>, <<\hBD,\hBD,1>>, <<\hC0,\hC0,3>>,
  <<\hC4,\hC4,1>>, <<\hC7,\hC7,9>>, <<\hD1,\hD1,4>>, <<\hD6,\hD6,2>>, <<\hD9,\hD9,4>>,
  <<\hDF,\hDF,4>>, <<\hE4,\hE4,1>>, <<\hE7,\hE7,9>>, <<\hF1,\hF1,4>>, <<\hF6,\hF6,2>>,
  <<\hF9,\hF9,4>>, <<\h108,\hC6,1>>, <<\h109,\hE6,1>>, <<\h10A,\hC5,1>>, <<\h10B,\hE5,1>>,
  <<\h11C,\hD8,1>>, <<\h11D,\hF8,1>>, <<\h11E,\hAB,1>>, <<\h11F,\hBB,1>>, <<\h120,\hD5,1>>,
  <<\h121,\hF5,1>>, <<\h124,\hA6,1>>, <<\h125,\hB6,1>>, <<\h126,\hA1,1>>, <<\h127,\hB1,1>>,
  <<\h130,\hA9,1>>, <<\h131,\hB9,1>>, <<\h134,\hAC,1>>, <<\h135,\hBC,1>>, <<\h15C,\hDE,1>>,
  <<\h15D,\hFE,1>>, <<\h15E,\hAA,1>>, <<\h15F,\hBA,1>>, <<\h16C,\hDD,1>>, <<\h16D,\hFD,1>>,
  <<\h17B,\hAF,1>>, <<\h17C,\hBF,1>>, <<\h2D8,\hA2,1>>, <<\h2D9,\hFF,1>> >>

iso8859_4_charset2uni ==
  Ascii \o None(32) \o <<
    \hA0, \h104, \h138, \h156, \hA4, \h128, \h13B, \hA7, \hA8, \h160, \h112, \h122, \h166, \hAD,
    \h17D, \hAF, \hB0, \h105, \h2DB, \h157, \hB4, \h129, \h13C, \h2C7, \hB8, \h161, \h113,
    \h123, \h167, \h14A, \h17E, \h14B, \h100 >> \o From(\hC1, 6) \o <<
    \h12E, \h10C, \hC9, \h118, \hCB, \h116, \hCD, \hCE, \h12A, \h110, \h145, \h14C, \h136, \hD4,
    \hD5, \hD6, \hD7, \hD8, \h172, \hDA, \hDB, \hDC, \h168, \h16A, \hDF, \h101 >> \o From(\hE1, 6) \o <<
    \h12F, \h10D, \hE9, \h119, \hEB, \h117, \hED, \hEE, \h12B, \h111, \h146, \h14D, \h137, \hF4,
    \hF5, \hF6, \hF7, \hF8, \h173, \hFA, \hFB, \hFC, \h169, \h16B, \h2D9 >>

iso8859_4_uni2charset == <<
  <<0,0,128>>, <<\hA0,\hA0,1>>, <<\hA4,\hA4,1>>, <<\hA7,\hA7,2>>, <<\hAD,\hAD,1>>,
  <<\hAF,\hAF,2>>, <<\hB4,\hB4,1>>, <<\hB8,\hB8,1>>, <<\hC1,\hC1,6>>, <<\hC9,\hC9,1>>,
  <<\hCB,\hCB,1>>, <<\hCD,\hCD,2>>, <<\hD4,\hD4,5>>, <<\hDA,\hDA,3>>, <<\hDF,\hDF,1>>,
  <<\hE1,\hE1,6>>, <<\hE9,\hE9,1>>, <<\hEB,\hEB,1>>, <<\hED,\hED,2>>, <<\hF4,\hF4,5>>,
  <<\hFA,\hFA,3>>, <<\h100,\hC0,1>>, <<\h101,\hE0,1>>, <<\h104,\hA1,1>>, <<\h105,\hB1,1>>,
  <<\h10C,\hC8,1>>, <<\h10D,\hE8,1>>, <<\h110,\hD0,1>>, <<\h111,\hF0,1>>, <<\h112,\hAA,1>>,
  <<\h113,\hBA,1>>, <<\h116,\hCC,1>>, <<\h117,\hEC,1>>, <<\h118,\hCA,1>>, <<\h119,\hEA,1>>,
  <<\h122,\hAB,1>>, <<\h123,\hBB,1>>, <<\h128,\hA5,1>>, <<\h129,\hB5,1>>, <<\h12A,\hCF,1>>,
  <<\h12B,\hEF,1>>, <<\h12E,\hC7,1>>, <<\h12F,\hE7,1>>, <<\h136,\hD3,1>>, <<\h137,\hF3,1>>,
  <<\h138,\hA2,1>>, <<\h13B,\hA6,1>>, <<\h13C,\hB6,1>>, <<\h145,\hD1,1>>, <<\h146,\hF1,1>>,
  <<\h14A,\hBD,1>>, <<\h14B,\hBF,1>>, <<\h14C,\hD2,1>>, <<\h14D,\hF2,1>>, <<\h156,\hA3,1>>,
  <<\h157,\hB3,1>>, <<\h160,\hA9,1>>, <<\h161,\hB9,1>>, <<\h166,\hAC,1>>, <<\h167,\hBC,1>>,
  <<\h168,\hDD,1>>, <<\h169,\hFD,1>>, <<\h16A,\hDE,1>>, <<\h16B,\hFE,1>>, <<\h172,\hD9,1>>,
  <<\h173,\hF9,1>>, <<\h17D,\hAE,1>>, <<\h17E,\hBE,1>>, <<\h2C7,\hB7,1>>, <<\h2D9,\hFF,1>>,
  <<\h2DB,\hB2,1>> >>

iso8859_5_charset2uni ==
  Ascii \o None(32) \o <<
    \hA0 >> \o From(\h401, 12) \o <<
    \hAD >> \o From(\h40E, 66) \o <<
    \h2116 >> \o From(\h451, 12) \o <<
    \hA7, \h45E, \h45F >>

iso8859_5_uni2charset == <<
  <<0,0,128>>, <<\hA0,\hA0,1>>, <<\hA7,\hFD,1>>, <<\hAD,\hAD,1>>, <<\h401,\hA1,12>>,
  <<\h40E,\hAE,66>>, <<\h451,\hF1,12>>, <<\h45E,\hFE,2>>, <<\h2116,\hF0,1>> >>

iso8859_6_charset2uni ==
  From(0, \h30) \o From(\h660, 10) \o From(\h3A, 70) \o None(32) \o <<
    \hA0, 0, 0, 0, \hA4 >> \o None(7) \o <<
    \h60C, \hAD >> \o None(13) \o <<
    \h61B, 0, 0, 0, \h61F, 0 >> \o From(\h621, 26) \o <<
    0, 0, 0, 0, 0 >> \o From(\h640, 19) \o None(13)

iso8859_6_uni2charset == <<
  <<0,0,48>>, <<\h3A,\h3A,70>>, <<\hA0,\hA0,1>>, <<\hA4,\hA4,1>>, <<\hAD,\hAD,1>>,
  <<\h60C,\hAC,1>>, <<\h61B,\hBB,1>>, <<\h61F,\hBF,1>>, <<\h621,\hC1,26>>, <<\h640,\hE0,19>>,
  <<\h660,\h30,10>> >>

iso8859_7_charset2uni ==
  Ascii \o None(32) \o <<
    \hA0, \h2BD, \h2BC, \hA3, 0, 0, \hA6, \hA7, \hA8, \hA9, 0, \hAB, \hAC, \hAD, 0, \h2015,
    \hB0, \hB1, \hB2, \hB3, \h384, \h385, \h386, \hB7, \h388, \h389, \h38A, \hBB, \h38C, \hBD >> \o From(\h38E, 20) \o <<
    0 >> \o From(\h3A3, 44) \o <<
    0 >>

iso8859_7_uni2charset == <<
  <<0,0,128>>, <<\hA0,\hA0,1>>, <<\hA3,\hA3,1>>, <<\hA6,\hA6,4>>, <<\hAB,\hAB,3>>,
  <<\hB0,\hB0,4>>, <<\hB7,\hB7,1>>, <<\hBB,\hBB,1>>, <<\hBD,\hBD,1>>, <<\h2BC,\hA2,1>>,
  <<\h2BD,\hA1,1>>, <<\h384,\hB4,3>>, <<\h388,\hB8,3>>, <<\h38C,\hBC,1>>, <<\h38E,\hBE,20>>,
  <<\h3A3,\hD3,44>>, <<\h2015,\hAF,1>> >>

iso8859_8_charset2uni ==
  Ascii \o None(32) \o <<
    \hA0, 0 >> \o From(\hA2, 8) \o <<
    \hD7, \hAB, \hAC, \hAD, \hAE, \h203E >> \o From(\hB0, 10) \o <<
    \hF7, \hBB, \hBC, \hBD, \hBE >> \o None(32) \o <<
    \h2017 >> \o From(\h5D0, 27) \o <<
    0, 0, 0, 0, 0 >>

iso8859_8_uni2charset == <<
  <<0,0,128>>, <<\hA0,\hA0,1>>, <<\hA2,\hA2,8>>, <<\hAB,\hAB,4>>, <<\hB0,\hB0,10>>,
  <<\hBB,\hBB,4>>, <<\hD7,\hAA,1>>, <<\hF7,\hBA,1>>, <<\h5D0,\hE0,27>>, <<\h2017,\hDF,1>>,
  <<\h203E,\hAF,1>> >>

iso8859_9_charset2uni ==
  Ascii \o None(32) \o From(\hA0, 48) \o <<
    \h11E >> \o From(\hD1, 12) \o <<
    \h130, \h15E >> \o From(\hDF, 17) \o <<
    \h11F >> \o From(\hF1, 12) \o <<
    \h131, \h15F, \hFF >>

iso8859_9_uni2charset == <<
  <<0,0,128>>, <<\hA0,\hA0,48>>, <<\hD1,\hD1,12>>, <<\hDF,\hDF,17>>, <<\hF1,\hF1,12>>,
  <<\hFF,\hFF,1>>, <<\h11E,\hD0,1>>, <<\h11F,\hF0,1>>, <<\h130,\hDD,1>>, <<\h131,\hFD,1>>,
  <<\h15E,\hDE,1>>, <<\h15F,\hFE,1>> >>

iso8859_14_charset2uni ==
  Ascii \o None(32) \o <<
    \hA0, \h1E02, \h1E03, \hA3, \h10A, \h10B, \h1E0A, \hA7, \h1E80, \hA9, \h1E82, \h1E0B,
    \h1EF2, \hAD, \hAE, \h178, \h1E1E, \h1E1F, \h120, \h121, \h1E40, \h1E41, \hB6, \h1E56,
    \h1E81, \h1E57, \h1E83, \h1E60, \h1EF3, \h1E84, \h1E85, \h1E61 >> \o From(\hC0, 16) \o <<
    \h174 >> \o From(\hD1, 6) \o <<
    \h1E6A >> \o From(\hD8, 6) \o <<
    \h176 >> \o From(\hDF, 17) \o <<
    \h175 >> \o From(\hF1, 6) \o <<
    \h1E6B >> \o From(\hF8, 6) \o <<
    \h177, \hFF >>

iso8859_14_uni2charset == <<
  <<0,0,128>>, <<\hA0,\hA0,1>>, <<\hA3,\hA3,1>>, <<\hA7,\hA7,1>>, <<\hA9,\hA9,1>>,
  <<\hAD,\hAD,2>>, <<\hB6,\hB6,1>>, <<\hC0,\hC0,16>>, <<\hD1,\hD1,6>>, <<\hD8,\hD8,6>>,
  <<\hDF,\hDF,17>>, <<\hF1,\hF1,6>>, <<\hF8,\hF8,6>>, <<\hFF,\hFF,1>>, <<\h102,\hA1,2>>,
  <<\h10A,\hA6,1>>, <<\h10B,\hAB,1>>, <<\h11E,\hB0,4>>, <<\h140,\hB4,2>>, <<\h156,\hB7,1>>,
  <<\h157,\hB9,1>>, <<\h160,\hBB,1>>, <<\h161,\hBF,1>>, <<\h16A,\hD7,1>>, <<\h16B,\hF7,1>>,
  <<\h174,\hD0,1>>, <<\h175,\hF0,1>>, <<\h176,\hDE,1>>, <<\h177,\hFE,1>>, <<\h178,\hAF,1>>,
  <<\h180,\hA8,1>>, <<\h181,\hB8,1>>, <<\h182,\hAA,1>>, <<\h183,\hBA,1>>, <<\h184,\hBD,2>>,
  <<\h1F2,\hAC,1>>, <<\h1F3,\hBC,1>>, <<\h1E02,\hA1,2>>, <<\h1E0A,\hA6,1>>, <<\h1E0B,\hAB,1>>,
  <<\h1E1E,\hB0,4>>, <<\h1E40,\hB4,2>>, <<\h1E56,\hB7,1>>, <<\h1E57,\hB9,1>>, <<\h1E60,\hBB,1>>,
  <<\h1E61,\hBF,1>>, <<\h1E6A,\hD7,1>>, <<\h1E6B,\hF7,1>>, <<\h1E74,\hD0,1>>, <<\h1E75,\hF0,1>>,
  <<\h1E76,\hDE,1>>, <<\h1E77,\hFE,1>>, <<\h1E78,\hAF,1>>, <<\h1E80,\hA8,1>>, <<\h1E81,\hB8,1>>,
  <<\h1E82,\hAA,1>>, <<\h1E83,\hBA,1>>, <<\h1E84,\hBD,2>>, <<\h1EF2,\hAC,1>>, <<\h1EF3,\hBC,1>> >>

iso8859_15_charset2uni ==
  Ascii \o None(32) \o <<
    \hA0, \hA1, \hA2, \hA3, \h20AC, \hA5, \h160, \hA7, \h161 >> \o From(\hA9, 11) \o <<
    \h17D, \hB5, \hB6, \hB7, \h17E, \hB9, \hBA, \hBB, \h152, \h153, \h178 >> \o From(\hBF, 65)

iso8859_15_uni2charset == <<
  <<0,0,128>>, <<\hA0,\hA0,4>>, <<\hA5,\hA5,1>>, <<\hA7,\hA7,1>>, <<\hA9,\hA9,11>>,
  <<\hB5,\hB5,3>>, <<\hB9,\hB9,3>>, <<\hBF,\hBF,65>>, <<\h152,\hBC,2>>, <<\h160,\hA6,1>>,
  <<\h161,\hA8,1>>, <<\h178,\hBE,1>>, <<\h17D,\hB4,1>>, <<\h17E,\hB8,1>>, <<\h20AC,\hA4,1>> >>

koi8_r_charset2uni ==
  Ascii \o <<
    \h2500, \h2502, \h250C, \h2510, \h2514, \h2518, \h251C, \h2524, \h252C, \h2534, \h253C,
    \h2580, \h2584, \h2588, \h258C, \h2590, \h2591, \h2592, \h2593, \h2320, \h25A0, \h2219,
    \h221A, \h2248, \h2264, \h2265, \hA0, \h2321, \hB0, \hB2, \hB7, \hF7, \h2550, \h2551,
    \h2552, \h451 >> \o From(\h2553, 15) \o <<
    \h401 >> \o From(\h2562, 11) \o <<
    \hA9, \h44E, \h430, \h431, \h446, \h434, \h435, \h444, \h433, \h445 >> \o From(\h438, 8) \o <<
    \h44F, \h440, \h441, \h442, \h443, \h436, \h432, \h44C, \h44B, \h437, \h448, \h44D, \h449,
    \h447, \h44A, \h42E, \h410, \h411, \h426, \h414, \h415, \h424, \h413, \h425 >> \o From(\h418, 8) \o <<
    \h42F, \h420, \h421, \h422, \h423, \h416, \h412, \h42C, \h42B, \h417, \h428, \h42D, \h429,
    \h427, \h42A >>

koi8_r_uni2charset == <<
  <<0,0,128>>, <<\hA0,\h9A,1>>, <<\hA9,\hBF,1>>, <<\hB0,\h9C,1>>, <<\hB2,\h9D,1>>,
  <<\hB7,\h9E,1>>, <<\hF7,\h9F,1>>, <<\h401,\hB3,1>>, <<\h410,\hE1,2>>, <<\h412,\hF7,1>>,
  <<\h413,\hE7,1>>, <<\h414,\hE4,2>>, <<\h416,\hF6,1>>, <<\h417,\hFA,1>>, <<\h418,\hE9,8>>,
  <<\h420,\hF2,4>>, <<\h424,\hE6,1>>, <<\h425,\hE8,1>>, <<\h426,\hE3,1>>, <<\h427,\hFE,1>>,
  <<\h428,\hFB,1>>, <<\h429,\hFD,1>>, <<\h42A,\hFF,1>>, <<\h42B,\hF9,1>>, <<\h42C,\hF8,1>>,
  <<\h42D,\hFC,1>>, <<\h42E,\hE0,1>>, <<\h42F,\hF1,1>>, <<\h430,\hC1,2>>, <<\h432,\hD7,1>>,
  <<\h433,\hC7,1>>, <<\h434,\hC4,2>>, <<\h436,\hD6,1>>, <<\h437,\hDA,1>>, <<\h438,\hC9,8>>,
  <<\h440,\hD2,4>>, <<\h444,\hC6,1>>, <<\h445,\hC8,1>>, <<\h446,\hC3,1>>, <<\h447,\hDE,1>>,
  <<\h448,\hDB,1>>, <<\h449,\hDD,1>>, <<\h44A,\hDF,1>>, <<\h44B,\hD9,1>>, <<\h44C,\hD8,1>>,
  <<\h44D,\hDC,1>>, <<\h44E,\hC0,1>>, <<\h44F,\hD1,1>>, <<\h451,\hA3,1>>, <<\h2219,\h95,2>>,
  <<\h2248,\h97,1>>, <<\h2264,\h98,2>>, <<\h2320,\h93,1>>, <<\h2321,\h9B,1>>, <<\h2500,\h80,1>>,
  <<\h2502,\h81,1>>, <<\h250C,\h82,1>>, <<\h2510,\h83,1>>, <<\h2514,\h84,1>>, <<\h2518,\h85,1>>,
  <<\h251C,\h86,1>>, <<\h2524,\h87,1>>, <<\h252C,\h88,1>>, <<\h2534,\h89,1>>, <<\h253C,\h8A,1>>,
  <<\h2550,\hA0,3>>, <<\h2553,\hA4,15>>, <<\h2562,\hB4,11>>, <<\h2580,\h8B,1>>,
  <<\h2584,\h8C,1>>, <<\h2588,\h8D,1>>, <<\h258C,\h8E,1>>, <<\h2590,\h8F,4>>, <<\h25A0,\h94,1>> >>

mac_roman_charset2uni ==
  Ascii \o <<
    \hC4, \hC5, \hC7, \hC9, \hD1, \hD6, \hDC, \hE1, \hE0, \hE2, \hE4, \hE3, \hE5, \hE7, \hE9,
    \hE8, \hEA, \hEB, \hED, \hEC, \hEE, \hEF, \hF1, \hF3, \hF2, \hF4, \hF6, \hF5, \hFA, \hF9,
    \hFB, \hFC, \h2020, \hB0, \hA2, \hA3, \hA7, \h2022, \hB6, \hDF, \hAE, \hA9, \h2122, \hB4,
    \hA8, \h2260, \hC6, \hD8, \h221E, \hB1, \h2264, \h2265, \hA5, \hB5, \h2202, \h2211, \h220F,
    \h3C0, \h222B, \hAA, \hBA, \h3A9, \hE6, \hF8, \hBF, \hA1, \hAC, \h221A, \h192, \h2248,
    \h2206, \hAB, \hBB, \h2026, \hA0, \hC0, \hC3, \hD5, \h152, \h153, \h2013, \h2014, \h201C,
    \h201D, \h2018, \h2019, \hF7, \h25CA, \hFF, \h178, \h2044, \h20AC, \h2039, \h203A, \hFB01,
    \hFB02, \h2021, \hB7, \h201A, \h201E, \h2030, \hC2, \hCA, \hC1, \hCB, \hC8, \hCD, \hCE,
    \hCF, \hCC, \hD3, \hD4, \hF8FF, \hD2, \hDA, \hDB, \hD9, \h131, \h2C6, \h2DC, \hAF, \h2D8,
    \h2D9, \h2DA, \hB8, \h2DD, \h2DB, \h2C7 >>

mac_roman_uni2charset == <<
  <<0,0,128>>, <<\hA0,\hCA,1>>, <<\hA1,\hC1,1>>, <<\hA2,\hA2,2>>, <<\hA5,\hB4,1>>,
  <<\hA7,\hA4,1>>, <<\hA8,\hAC,1>>, <<\hA9,\hA9,1>>, <<\hAA,\hBB,1>>, <<\hAB,\hC7,1>>,
  <<\hAC,\hC2,1>>, <<\hAE,\hA8,1>>, <<\hAF,\hF8,1>>, <<\hB0,\hA1,1>>, <<\hB1,\hB1,1>>,
  <<\hB4,\hAB,1>>, <<\hB5,\hB5,1>>, <<\hB6,\hA6,1>>, <<\hB7,\hE1,1>>, <<\hB8,\hFC,1>>,
  <<\hBA,\hBC,1>>, <<\hBB,\hC8,1>>, <<\hBF,\hC0,1>>, <<\hC0,\hCB,1>>, <<\hC1,\hE7,1>>,
  <<\hC2,\hE5,1>>, <<\hC3,\hCC,1>>, <<\hC4,\h80,2>>, <<\hC6,\hAE,1>>, <<\hC7,\h82,1>>,
  <<\hC8,\hE9,1>>, <<\hC9,\h83,1>>, <<\hCA,\hE6,1>>, <<\hCB,\hE8,1>>, <<\hCC,\hED,1>>,
  <<\hCD,\hEA,3>>, <<\hD1,\h84,1>>, <<\hD2,\hF1,1>>, <<\hD3,\hEE,2>>, <<\hD5,\hCD,1>>,
  <<\hD6,\h85,1>>, <<\hD8,\hAF,1>>, <<\hD9,\hF4,1>>, <<\hDA,\hF2,2>>, <<\hDC,\h86,1>>,
  <<\hDF,\hA7,1>>, <<\hE0,\h88,1>>, <<\hE1,\h87,1>>, <<\hE2,\h89,1>>, <<\hE3,\h8B,1>>,
  <<\hE4,\h8A,1>>, <<\hE5,\h8C,1>>, <<\hE6,\hBE,1>>, <<\hE7,\h8D,1>>, <<\hE8,\h8F,1>>,
  <<\hE9,\h8E,1>>, <<\hEA,\h90,2>>, <<\hEC,\h93,1>>, <<\hED,\h92,1>>, <<\hEE,\h94,2>>,
  <<\hF1,\h96,1>>, <<\hF2,\h98,1>>, <<\hF3,\h97,1>>, <<\hF4,\h99,1>>, <<\hF5,\h9B,1>>,
  <<\hF6,\h9A,1>>, <<\hF7,\hD6,1>>, <<\hF8,\hBF,1>>, <<\hF9,\h9D,1>>, <<\hFA,\h9C,1>>,
  <<\hFB,\h9E,2>>, <<\hFF,\hD8,1>>, <<\h131,\hF5,1>>, <<\h152,\hCE,2>>, <<\h178,\hD9,1>>,
  <<\h192,\hC4,1>>, <<\h2C6,\hF6,1>>, <<\h2C7,\hFF,1>>, <<\h2D8,\hF9,3>>, <<\h2DB,\hFE,1>>,
  <<\h2DC,\hF7,1>>, <<\h2DD,\hFD,1>>, <<\h3A9,\hBD,1>>, <<\h3C0,\hB9,1>>, <<\h2013,\hD0,2>>,
  <<\h2018,\hD4,2>>, <<\h201A,\hE2,1>>, <<\h201C,\hD2,2>>, <<\h201E,\hE3,1>>, <<\h2020,\hA0,1>>,
  <<\h2021,\hE0,1>>, <<\h2022,\hA5,1>>, <<\h2026,\hC9,1>>, <<\h2030,\hE4,1>>, <<\h2039,\hDC,2>>,
  <<\h2044,\hDA,1>>, <<\h20AC,\hDB,1>>, <<\h2122,\hAA,1>>, <<\h2202,\hB6,1>>, <<\h2206,\hC6,1>>,
  <<\h220F,\hB8,1>>, <<\h2211,\hB7,1>>, <<\h221A,\hC3,1>>, <<\h221E,\hB0,1>>, <<\h222B,\hBA,1>>,
  <<\h2248,\hC5,1>>, <<\h2260,\hAD,1>>, <<\h2264,\hB2,2>>, <<\h25CA,\hD7,1>>, <<\hF8FF,\hF0,1>>,
  <<\hFB01,\hDE,2>> >>

\* register_nls() of each file.
CharsetTables == <<
  <<"iso8859-1", iso8859_1_charset2uni, iso8859_1_uni2charset>>,
  <<"iso8859-2", iso8859_2_charset2uni, iso8859_2_uni2charset>>,
  <<"iso8859-3", iso8859_3_charset2uni, iso8859_3_uni2charset>>,
  <<"iso8859-4", iso8859_4_charset2uni, iso8859_4_uni2charset>>,
  <<"iso8859-5", iso8859_5_charset2uni, iso8859_5_uni2charset>>,
  <<"iso8859-6", iso8859_6_charset2uni, iso8859_6_uni2charset>>,
  <<"iso8859-7", iso8859_7_charset2uni, iso8859_7_uni2charset>>,
  <<"iso8859-8", iso8859_8_charset2uni, iso8859_8_uni2charset>>,
  <<"iso8859-9", iso8859_9_charset2uni, iso8859_9_uni2charset>>,
  <<"iso8859-14", iso8859_14_charset2uni, iso8859_14_uni2charset>>,
  <<"iso8859-15", iso8859_15_charset2uni, iso8859_15_uni2charset>>,
  <<"koi8-r", koi8_r_charset2uni, koi8_r_uni2charset>>,
  <<"mac-roman", mac_roman_charset2uni, mac_roman_uni2charset>> >>

=============================================================================
