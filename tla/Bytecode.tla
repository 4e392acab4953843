------------------------------ MODULE Bytecode ------------------------------
(***************************************************************************)
(* The vocabulary the compiler and the interpreter share: the instruction  *)
(* set, the type codes, and the packing of nested types into nibbles.      *)
(*                                                                         *)
(* A program is a sequence of 16-bit words.  A word is an opcode or an     *)
(* operand of the opcode before it; nothing in the words themselves tells  *)
(* the two apart.                                                          *)
(***************************************************************************)
EXTENDS Integers, Sequences

(***************************************************************************)
(* Opcodes (runtime/runtime.go, an iota block).                            *)
(***************************************************************************)
NOP            == 0
PUSH16         == 1
PUSH32         == 2
PUSHSTR        == 3
INITVARS       == 4
DELVARS        == 5
ADDINT         == 6
SUBINT         == 7
MULINT         == 8
DIVINT         == 9
MODINT         == 10
EQINT          == 11
LTINT          == 12
GTINT          == 13
AND            == 14
OR             == 15
DUP            == 16
GETVAR         == 17
SETVAR         == 18
JMP            == 19
JMPREL         == 20
JZE            == 21
JNZ            == 22
ASSIGNINT      == 23
ASSIGNSTR      == 24
ASSIGNADDINT   == 25
ASSIGNSUBINT   == 26
ASSIGNMULINT   == 27
ASSIGNDIVINT   == 28
ASSIGNMODINT   == 29
CALLFUNC       == 30
EMBEDFUNC      == 31
CUSTOMFUNC     == 32
CALLCONTRACT   == 33
LOADPARS       == 34
PARCONTRACT    == 35
GETPARAMS      == 36
RETURN         == 37
RETFUNC        == 38
SIGNINT        == 39
NOT            == 40
ADDSTR         == 41
EQSTR          == 42
ASSIGNADDSTR   == 43
APPENDARR      == 44
GETINDEX       == 45
SETINDEX       == 46
GETMAP         == 47
SETMAP         == 48
COPYSTR        == 49
COPY           == 50
ASSIGNSETMAP   == 51
ASSIGNSETARR   == 52
ASSIGNSETBYTES == 53
INITARR        == 54
INITMAP        == 55
INITOBJ        == 56
INITOBJLIST    == 57
OBJ2LIST       == 58
ENV            == 59
PUSH64         == 60
SIGNFLOAT      == 61
ADDFLOAT       == 62
SUBFLOAT       == 63
MULFLOAT       == 64
DIVFLOAT       == 65
ASSIGNADDFLOAT == 66
ASSIGNSUBFLOAT == 67
ASSIGNMULFLOAT == 68
ASSIGNDIVFLOAT == 69
EQFLOAT        == 70
LTFLOAT        == 71
GTFLOAT        == 72
ADDMONEY       == 73
SUBMONEY       == 74
MULMONEY       == 75
DIVMONEY       == 76
SIGNMONEY      == 77
ASSIGNADDMONEY == 78
ASSIGNSUBMONEY == 79
ASSIGNMULMONEY == 80
ASSIGNDIVMONEY == 81
EQMONEY        == 82
LTMONEY        == 83
GTMONEY        == 84
ASSIGNADDBYTES == 85
DATA           == 86
(***************************************************************************)
(* Type codes (parser/node.go, an iota block).                             *)
(***************************************************************************)
VVoid    == 0
VInt     == 1
VBool    == 2
VStr     == 3
VArr     == 4
VMap     == 5
VFloat   == 6
VMoney   == 7
VObject  == 8
VBytes   == 9
VFile    == 10
VObjList == 11

(***************************************************************************)
(* A nested type holds its outermost constructor in the low nibble, the    *)
(* type of its elements in the nibbles above it.                           *)
(***************************************************************************)
MainType(t) == t % 16
SubType(t)  == t \div 16
TypeOf(main, sub) == 16 * sub + main

(***************************************************************************)
(* Words are unsigned, jump offsets are read back as int16.                *)
(***************************************************************************)
WordMax == 65535
Word(x) == x % 65536
Signed(w) == IF w < 32768 THEN w ELSE w - 65536

(***************************************************************************)
(* The library functions modelled: their indexes in StdLib.                *)
(***************************************************************************)
Keys     == 0
LenArr   == 1
LenMap   == 2
LenStr   == 3
LenBytes == 4
StrInt   == 5
StrBool  == 6
StrMoney == 7
IntStr   == 8
MoneyInt == 12
BytesStr == 15
ReplaceStr == 22
Split    == 23
Substr   == 24
ContainsStr == 25
HasPrefix == 26
Join     == 27
JSONDecode == 31
JSONEncode == 32
IsExists == 34
IsStr    == 35   \* IsString
IsArray  == 36
IsMap    == 37
GetStr   == 38   \* GetString
GetArray == 39
GetMapOf == 40   \* GetMap
=============================================================================
