------------------------------ MODULE MCScript ------------------------------
(* Small scripts for TLC.  The macros are those of scm/rnrs/base.scm.      *)
EXTENDS Script

LetMacro ==
    "(define-syntax let (syntax-rules () ((let ((var init) ...) expr ...) ((lambda (var ...) "
        \o "expr ...) init ...)) ((let name ((var init) ...) expr ...) (letrec ((name (lambda (var "
        \o "...) expr ...))) (name init ...)))))"
LetStarMacro ==
    "(define-syntax let* (syntax-rules () ((let* () expr ...) ((lambda () expr ...))) ((let* "
        \o "((var init)) expr ...) ((lambda (var) expr ...) init)) ((let* ((v0 i0) (v1 i1) (vn in) "
        \o "...) expr ...) ((lambda (v0) (let* ((v1 i1) (vn in) ...) expr ...)) i0))))"
LetRecMacro ==
    "(define-syntax letrec (syntax-rules () ((letrec ((var init) ...) expr ...) ((lambda () "
        \o "(define var init) ... expr ...)))))"
AndMacro ==
    "(define-syntax and (syntax-rules () ((and) #t) ((and var) var) ((and var first rest ...) "
        \o "(if var (and first rest ...) #f))))"
OrMacro ==
    "(define-syntax or (syntax-rules () ((or) #f) ((or var) var) ((or var first rest ...) (if "
        \o "var #t (or first rest ...)))))"
CondMacro ==
    "(define-syntax cond (syntax-rules (else =>) ((cond (test expr)) (if test expr)) ((cond "
        \o "(test => expr)) (if test expr)) ((cond (test expr) (else elsexp)) (if test expr elsexp)) "
        \o "((cond (test => expr) (else elsexp)) (if test expr elsexp)) ((cond (test expr) rest ...) "
        \o "(if test expr (cond rest ...))) ((cond (test => expr) rest ...) (if test expr (cond rest "
        \o "...)))))"
WhenMacro ==
    "(define-syntax when (syntax-rules () ((when test firstExpr restExpr ...) (if test (begin "
        \o "firstExpr restExpr ...))))) (define-syntax unless (syntax-rules () ((unless test "
        \o "firstExpr restExpr ...) (if (not test) (begin firstExpr restExpr ...)))))"
DoMacro ==
    "(define-syntax do (syntax-rules () ((do ((var init step) ...) (test expr ...) command "
        \o "...) (let loop ((var init) ...) (if test (begin #f expr ...) (begin command ... (loop "
        \o "step ...)))))))"

Plain == {
    "(define (fact n) (if (= n 0) 1 (* n (fact (- n 1))))) (fact 4)",
    "(define (counter) ((lambda (n) (lambda () (set! n (+ n 1)) n)) 0)) (define c "
        \o "(counter)) (c) (list (c) ((counter)))",
    "(+ 1 (call/cc (lambda (k) (+ 10 (k 5)))))",
    "(define (first p l) (call/cc (lambda (return) (define (look l) (if (p (car l)) "
        \o "(return (car l)) (look (cdr l)))) (look l)))) (list (first negative? '(1 -2 3)))",
    "(define (f . l) (apply list 0 l)) (list (f) (apply apply (list + (list 1 2))) (f 1 2))",
    "((lambda (a . r) (call/cc r) (list a r)) 1 (lambda (k) 2))",
    "((lambda (a . r) (list a r)) 1 2 3)",
    "(define x 2) ^(1 ,x ,@(list 3 x) #(a ,(+ x 1) ,@(vector 4)) (b ,x) . ())",
    "(define p (current-output-port)) (put-string p \"abcd\" 1 2) (put-datum p '(1 . (2 "
        \o ". 3))) (sleep 5) (put-char p #\\z) 7",
    "(string-append (get-line (current-input-port)) \"!\" (get-line (current-input-port)))",
    "((lambda (p) (get-line p)) (current-input-port))",
    "(define (nap n) (if (= n 0) 'up (begin (sleep n) (nap (- n 1))))) (nap 2)",
    "((lambda (x) (define y (+ x 1)) (define (g) (* y x)) (sleep 0) (g)) 3)",
    "(define p (current-output-port)) (put-string p \"a\") (+ 1 (car '()))",
    "(define (f) (1 2)) (list 1 (f))",
    "((lambda (x) x))",
    "(foo)",
    "(+ 1 (if #t 2 3))",
    "(list 1 (begin (if #f 2) 3))",
    "(quote 1 2)",
    "(car '(1 2)",
    "(define (f x) (begin (if x 1 2) (list x)) ) (f 3)",
    "(define y 1) (set! y 2) (set! x 2)",
    "(vector-ref '#(1 2) 2)",
    " ; nothing\n",
    "(lambda x x) 'a \"q\\n\""}

Derived == {
    LetMacro \o "(let ((x 2) (y 3)) (let ((x 7) (z (+ x y))) (* z x)))",
    LetStarMacro \o "(let* () (let* ((a 1) (b (+ a 1)) (c (* b 3))) (list a b c)))",
    LetRecMacro \o "(letrec ((even? (lambda (n) (if (= n 0) #t (odd? (- n 1))))) (odd? (lambda (n) "
        \o "(if (= n 0) #f (even? (- n 1)))))) (even? 3))",
    AndMacro \o OrMacro \o "(define (t x) (put-datum (current-output-port) x) #t) (or (and (t 1) (zero? 1) "
        \o "(t 2)) (and) (t 3))",
    CondMacro \o "(define (sign n) (cond ((> n 0) 'plus) ((= n 0) 'zero) (else 'minus))) (list "
        \o "(sign 1) (sign 0) (sign -1))",
    CondMacro \o "(define (pick n) (cond ((= n 1) => 'one) (else 'more))) (define (none) (cond (#f "
        \o "1))) (list (pick 1) (pick 2) (none))",
    WhenMacro \o "(define p (current-output-port)) (when (= 1 1) (put-string p \"w\") 2) (unless (= "
        \o "1 1) (put-string p \"u\")) (unless #f 4)",
    LetMacro \o LetRecMacro \o "(let loop ((i 0) (l '())) (if (= i 3) l (loop (+ i 1) (cons i l))))",
    LetMacro \o LetRecMacro \o DoMacro \o "(do ((i 0 (+ i 1)) (s 0 (+ s i))) ((= i 3) 'done s) (put-datum "
        \o "(current-output-port) i))"}

MCProbes == {
    "(define (f x) (lambda (y) (+ x y))) ((f 1) 2)",
    "(get-line (current-input-port))"}

MCLaws == {
    "(equal? (list (+ 1 2.5) (- 7) (- 9 2 3) (* 2 3 4) (/ 7 -2) (mod -7 3) (floor "
        \o "-1.5) (ceiling 1.5) (truncate -1.5) (round 2.5)) '(3.5 -7 4 24 -3 -1 -2 2 -1 3))",
    "(equal? (list (= 1 1 1) (< 1 2 2) (> 3 2.5 1) (<= 1 1 2) (>= 2 2 3) (max 1 5 3) "
        \o "(min 4 2.5 3) (abs -4) (zero? 0) (positive? -1) (negative? -1)) '(#t #f #t #t #f "
        \o "5 2.5 4 #t #f #t))",
    "(equal? (list (number->string -255 16) (string->number \"ff\" 16) (string->number "
        \o "\"2.5\") (string->number \"x\") (not #f) (not 0) (boolean=? #t #t #f)) '(\"-ff\" 255 "
        \o "2.5 #f #t #f #f))",
    "(equal? (list (char->integer #\\A) (integer->char 98) (char=? #\\a #\\a) (char<? "
        \o "#\\a #\\b #\\b) (char>? #\\b #\\a) (char<=? #\\a #\\a) (char>=? #\\a #\\space)) '(65 #\\b "
        \o "#t #f #t #t #t))",
    "(equal? (list (make-string 2 #\\x) (string #\\a #\\b) (string-length \"abc\") "
        \o "(string-ref \"abc\" 1) (substring \"hello\" 1 3) (string-append \"a\" \"bc\") "
        \o "(string->list \"ab\") (list->string '(#\\c)) (string-copy \"q\")) '(\"xx\" \"ab\" 3 #\\b "
        \o "\"el\" \"abc\" (#\\a #\\b) \"c\" \"q\"))",
    "(equal? (list (string=? \"a\" \"a\") (string<? \"a\" \"ab\" \"b\") (string>? \"ab\" \"b\") "
        \o "(string<=? \"a\" \"a\") (string>=? \"b\" \"ba\") (symbol->string 'ab) (string->symbol "
        \o "\"cd\") (symbol=? 'a 'a 'b)) '(#t #t #f #t #f \"ab\" cd #f))",
    "(equal? (list (cons 1 2) (car '(1)) (cdr '(1)) (append '(1) '() '(2 3)) (length "
        \o "'(1 2)) (reverse '(1 2 3)) (list-tail '(1 2 3) 2) (list-ref '(1 2 3) 2)) '((1 . "
        \o "2) 1 () (1 2 3) 2 (3 2 1) (3) 3))",
    "(equal? (list (make-vector 2 0) (vector 1 2) (vector-length '#(1 2)) (vector-ref "
        \o "'#(1 2) 1) (vector->list '#(1 2)) (list->vector '(1 2)) (vector-append '#(1) "
        \o "'#() '#(2))) '(#(0 0) #(1 2) 2 2 (1 2) #(1 2) #(1 2)))",
    "(equal? (list (pair? '()) (null? '()) (list? '(1 . 2)) (vector? '#()) (boolean? "
        \o "#f) (symbol? 'a) (number? 1.5) (integer? 1.5) (char? #\\a) (string? \"\") "
        \o "(procedure? car) (eqv? 1 1) (eq? 'a 'b)) '(#f #t #f #t #t #t #t #f #t #t #t #t "
        \o "#f))",
    "(equal? (list 0x1F 017 #| a #| b |# |# -3 #;(hidden) +.5 '#vu8(1 255) "
        \o "\"a\\x41;\\tb\" #\\x42) '(31 15 -3 .5 #vu8(1 255) \"aA\tb\" #\\B)) ; end",
    "(= (+ 32767 1) -32768)",
    "(define-syntax swap! (syntax-rules () ((_ a b) ((lambda (tmp) (set! a b) (set! b "
        \o "tmp)) a)))) (define x 1) (define y 2) (swap! x y) (equal? (list x y) '(2 1))",
    "(define cell 1) (define-syntax it (identifier-syntax (it cell) ((set! it v) "
        \o "(set! cell (+ v 1))))) (set! it 4) (= it 5)",
    "((lambda (x) (let-syntax ((inc (syntax-rules () ((_ v) (+ v 1))))) (= (inc x) 3))) 2)",
    "(define-syntax pairs (syntax-rules () ((_ ((c d ...) ...) #(a b) ... 0) '((a ... "
        \o "c ...) #((d ...) ...) (... ...) b ...)))) (equal? (pairs ((5 6 7) (8)) #(1 2) "
        \o "#(3 4) 0) '((1 3 5 8) #((6 7) ()) ... 2 4))"}

MCScripts == Plain \cup Derived \cup MCProbes \cup MCLaws

=============================================================================
